---------------------------- MODULE Spec2Model ----------------------------
(***************************************************************************)
(* The RAG chat pipeline of the medical portal: the response cache         *)
(* (apps/chat/rag_cache.py), retrieval / reranking / confidence            *)
(* (apps/chat/services_advanced.py), the query pipeline                    *)
(* (apps/chat/services_integrated.py) and the monitor                      *)
(* (apps/chat/rag_monitor.py); and, of the portal around it, the password  *)
(* reset (apps/accounts/views.py) and the audit trail                      *)
(* (apps/audit/signals.py).                                                *)
(*                                                                         *)
(* Representation.                                                         *)
(*  - A text is a sequence of tokens; a token is a word in lower or upper  *)
(*    case, or the blank " ".  lower() and strip() act on tokens.          *)
(*  - A float score s is the integer 20*s (steps of 0.05); a confidence c  *)
(*    is the integer 1728000*c, which is exact for mean*(1-variance) of    *)
(*    one, two or three such scores.  Floats are modelled as exact         *)
(*    rationals.                                                           *)
(*  - A cosine similarity is an integer in thousandths.                    *)
(*  - Time is in seconds.                                                  *)
(*  - The Redis database is one record, redis; the entries of queries the  *)
(*    model does not follow one by one are counted (redis.bulkEntries,     *)
(*    redis.lateBulk, redis.popBulk, redis.otherKeys).                     *)
(*                                                                         *)
(* Specifications.                                                         *)
(*  - Spec          generate_response calls and the passing of time        *)
(*  - SpecTTL       cache_response on its own                              *)
(*  - SpecCache     the cache manager: writes, lookups, invalidation       *)
(*  - SpecRanking   rerank_results and calculate_confidence                *)
(*  - SpecFeedback  feedback on recorded queries                           *)
(*  - SpecChunks    process_document runs interleaved with queries         *)
(*  - SpecMonitor   record_query on its own                                *)
(*  - SpecReset     password_reset_confirm requests, query by query        *)
(*  - SpecAudit     saves and deletes with the audit receivers             *)
(*  - SpecRetrieval hybrid_search on its own                               *)
(*  - SpecLookups   _get_exact_match command by command, among other calls *)
(***************************************************************************)
EXTENDS Integers, Sequences, FiniteSets, TLC

VARIABLES
    now,        \* wall clock, seconds
    redis,      \* the Redis database shared by cache, monitor and Django cache
    metricsDb,  \* the RAGMetrics table, a sequence of rows
    messages,   \* the ChatMessage table, a sequence of [role, kind]
    sessions,   \* ids of the users with an active ChatSession
    nQueries,   \* number of generate_response calls made
    last,       \* what the last generate_response call did and returned
    ingest,     \* the chunk table, the vector store, the process_document runs
    accounts,   \* the users' passwords, the PasswordReset rows, the confirm requests
    audit,      \* the audited tables, the AuditLog table, the clock of the saves
    lookups     \* the cache lookups in flight: what each has read so far

vars == <<now, redis, metricsDb, messages, sessions, nQueries, last, ingest,
          accounts, audit, lookups>>

\* The state of the parts a specification does not follow.
NoAccounts == [password |-> "none", resets |-> <<>>, requests |-> <<>>]

NoAudit == [rows |-> <<>>, log |-> <<>>, clock |-> 0]

NoLookups == <<>>

-----------------------------------------------------------------------------
(* Bounds of the model *)

MaxQueries == 2
MaxTime == 5400
TickStep == 5400

-----------------------------------------------------------------------------
(* Generic helpers *)

Put(f, k, v) == [x \in (DOMAIN f) \cup {k} |-> IF x = k THEN v ELSE f[x]]

Del(f, S) == [x \in (DOMAIN f) \ S |-> f[x]]

Min(a, b) == IF a < b THEN a ELSE b

Max(a, b) == IF a > b THEN a ELSE b

RECURSIVE SumSeq(_)
SumSeq(s) == IF s = <<>> THEN 0 ELSE Head(s) + SumSeq(Tail(s))

Take(s, n) == SubSeq(s, 1, Min(n, Len(s)))

\* The index of the first occurrence of x in s (x occurs in s).
IndexOf(s, x) == CHOOSE i \in 1..Len(s) : s[i] = x /\ \A j \in 1..(i - 1) : s[j] # x

\* Op(v), with v evaluated once.
Bind(v, Op(_)) == CHOOSE r \in {Op(x) : x \in {v}} : TRUE

\* All orderings of a finite set, as sequences without repetition.
Orderings(S) ==
    {s \in [1..Cardinality(S) -> S] : \A i, j \in 1..Cardinality(S) : i # j => s[i] # s[j]}

-----------------------------------------------------------------------------
(* Texts: str.lower(), str.strip(), substring test *)

LowerTok(t) ==
    CASE t = "CHEMO" -> "chemo"
      [] OTHER -> t

Lower(q) == [i \in 1..Len(q) |-> LowerTok(q[i])]

RECURSIVE LStrip(_)
LStrip(q) == IF q # <<>> /\ Head(q) = " " THEN LStrip(Tail(q)) ELSE q

RECURSIVE RStrip(_)
RStrip(q) ==
    IF q # <<>> /\ q[Len(q)] = " " THEN RStrip(SubSeq(q, 1, Len(q) - 1)) ELSE q

Strip(q) == RStrip(LStrip(q))

\* query.lower().strip()
Normalize(q) == Strip(Lower(q))

\* keyword in message
Contains(q, kw) ==
    \E i \in 1..(Len(q) - Len(kw) + 1) : SubSeq(q, i, i + Len(kw) - 1) = kw

-----------------------------------------------------------------------------
(* Users, their contexts, the queries *)

\* A user: medical record (or none) and language (or none).
Users ==
    { [id |-> "guest", has_record |-> FALSE, cancer_type |-> "none",
       cancer_stage |-> "none", language |-> "none"],
      [id |-> "pat1", has_record |-> TRUE, cancer_type |-> "lung",
       cancer_stage |-> "II", language |-> "en"] }

\* The three queries of COMMON_MEDICAL_QUERIES, as texts.
WarmQueries == << <<"chemo">>, <<"radiation">>, <<"immuno">> >>

\* The messages users send.
RawQueries == { <<" ", "CHEMO", " ">>, <<"dose">>, <<"911">> }

NormQueriesSeq == << <<"chemo">>, <<"radiation">>, <<"immuno">>, <<"dose">>, <<"911">> >>

\* _get_user_context: the dict that is the cache context.  A key the dict
\* does not hold is "absent".
_get_user_context(user) ==
    [cancer_type |-> IF user.has_record THEN user.cancer_type ELSE "absent",
     cancer_stage |-> IF user.has_record THEN user.cancer_stage ELSE "absent",
     language |-> IF user.language # "none" THEN user.language ELSE "absent"]

\* {}: the context of warm_cache, and of a user without record and language.
EmptyContext == [cancer_type |-> "absent", cancer_stage |-> "absent", language |-> "absent"]

ContextsSeq ==
    << EmptyContext,
       [cancer_type |-> "lung", cancer_stage |-> "II", language |-> "en"] >>

HexDigits == <<"0", "1", "2", "3", "4", "5", "6", "7", "8", "9", "a", "b", "c", "d", "e", "f">>

\* hashlib.md5(key_string).hexdigest(): a digest of hexadecimal digits, one
\* digest per key string (two digits here instead of thirty-two).
Md5Hex(key_data) ==
    << HexDigits[IndexOf(NormQueriesSeq, key_data.query)],
       HexDigits[IndexOf(ContextsSeq, key_data.context)] >>

_generate_cache_key(query, context) ==
    Md5Hex([query |-> Normalize(query), context |-> context])

-----------------------------------------------------------------------------
(* Sentence embeddings and cosine similarity *)

\* similarity_model.encode: one vector per normalized text.
Encode(nq) ==
    CASE nq = <<"chemo">> -> <<25, 0>>
      [] nq = <<"radiation">> -> <<7, 24>>
      [] nq = <<"immuno">> -> <<20, -15>>
      [] nq = <<"dose">> -> <<-7, 24>>
      [] OTHER -> <<0, -25>>

Dot(u, v) == u[1] * v[1] + u[2] * v[2]

\* The integer square root (the vectors of Encode have norms up to 25).
ISqrt(x) == CHOOSE n \in 0..25 : n * n <= x /\ x < (n + 1) * (n + 1)

\* util.cos_sim, in thousandths
CosSim(u, v) == (1000 * Dot(u, v)) \div (ISqrt(Dot(u, u)) * ISqrt(Dot(v, v)))

-----------------------------------------------------------------------------
(* Program constants *)

\* RAGCacheManager.__init__
default_ttl == 3600
popular_query_ttl == 86400
max_cache_size == 10000
\* similarity_threshold = 0.85
similarity_threshold == <<85, 100>>
\* _is_popular_query: zrange(-100, -1), score > 10; _update_popular_queries: keep 1000
popular_window == 100
popular_min_score == 10
popular_keep == 1000
\* AdvancedRAGService.__init__
retrieval_k == 20
rerank_k == 5
confidence_threshold == <<7, 10>>
search_cache_ttl == 3600

\* The score every ranking member the model does not follow has, and the
\* hit count of every cache entry it does not follow.
BulkScore == 50

-----------------------------------------------------------------------------
(* The response cache: RAGCacheManager over the Redis database.             *)
(* Every operator takes the database R (and the clock) and gives the        *)
(* database after the call, or the value read.                              *)

\* A key with a time to live is gone once the time has passed.
Live(e, t) == (~e.expiry.set) \/ t < e.expiry.at

\* Redis drops the keys whose time to live has passed.
Purge(R, t) ==
    [R EXCEPT !.results = Del(@, {k \in DOMAIN @ : ~Live(@[k], t)}),
              !.searchCache = Del(@, {q \in DOMAIN @ : @[q].expire_at <= t})]

\* DBSIZE: every key of the database, whatever it holds.
DbSize(R) ==
    Cardinality(DOMAIN R.results) + R.bulkEntries + R.lateBulk
    + (IF DOMAIN R.embeddings # {} \/ R.bulkEntries + R.lateBulk > 0 THEN 1 ELSE 0)
    + (IF DOMAIN R.popular # {} \/ R.popBulk > 0 THEN 1 ELSE 0)
    + (IF R.statsKey THEN 1 ELSE 0)
    + (IF R.realtimeKey THEN 1 ELSE 0)
    + (IF R.alerts # <<>> THEN 1 ELSE 0)
    + (IF R.satisfaction.total_ratings > 0 THEN 1 ELSE 0)
    + Cardinality(DOMAIN R.searchCache)
    + R.otherKeys

\* _update_stats: hincrby on today's stats hash, which then exists.
_update_stats(R) == [R EXCEPT !.statsKey = TRUE]

\* _get_exact_match, the read: the stored record or none.
ExactHit(R, key) == key \in DOMAIN R.results

\* _get_exact_match, the write: hits + 1, stored with SET, which discards the
\* key's time to live.
_get_exact_match(R, key) ==
    IF key \in DOMAIN R.results
    THEN [R EXCEPT !.results[key] =
             [@ EXCEPT !.hits = @ + 1, !.expiry = [set |-> FALSE, at |-> 0]]]
    ELSE R

\* similarity > self.similarity_threshold
AboveThreshold(similarity) ==
    similarity * similarity_threshold[2] > similarity_threshold[1] * 1000

\* The loop of _get_similar_match over the fields `order` of the hash, in the
\* order HGETALL gave them: the first strictly best entry above the threshold.
RECURSIVE BestMatch(_, _, _, _, _)
BestMatch(R, qe, order, best, best_score) ==
    IF order = <<>> THEN best
    ELSE LET k == Head(order)
             similarity == CosSim(qe, R.embeddings[k])
         IN IF AboveThreshold(similarity) /\ similarity > best_score
            THEN BestMatch(R, qe, Tail(order), <<k>>, similarity)
            ELSE BestMatch(R, qe, Tail(order), best, best_score)

\* The fields of the embedding hash the loop can stop on.  HGETALL gives the
\* fields of a hash in no specified order; the fields at or below the
\* threshold never change best_match, so the order of the others decides.
Candidates(R, query) ==
    {k \in DOMAIN R.embeddings :
        AboveThreshold(CosSim(Encode(Normalize(query)), R.embeddings[k]))}

\* _get_similar_match: <<key>> of the best match, or <<>>.
_get_similar_match(R, query, order) ==
    BestMatch(R, Encode(Normalize(query)), order, <<>>, 0)

\* get_cached_response: [type, key, payload, db].  `order` is the order of
\* the embedding hash's fields.
NoPayload == [content |-> [kind |-> "none", q |-> <<>>, user |-> "none"],
              confidence |-> 0, cache_type |-> "none"]

get_cached_response(R, query, context, order) ==
    LET exact_key == _generate_cache_key(query, context)
    IN IF ExactHit(R, exact_key)
       THEN [type |-> "exact_hit", key |-> exact_key,
             payload |-> R.results[exact_key].response,
             db |-> _update_stats(_get_exact_match(R, exact_key))]
       ELSE LET best == _get_similar_match(R, query, order)
            IN IF best # <<>> /\ ExactHit(R, best[1])
               THEN [type |-> "similar_hit", key |-> best[1],
                     payload |-> R.results[best[1]].response,
                     db |-> _update_stats(_get_exact_match(R, best[1]))]
               ELSE [type |-> "miss", key |-> exact_key, payload |-> NoPayload,
                     db |-> _update_stats(R)]

\* The number of ranking members ranked above member q (higher score; the
\* members the model does not follow all have BulkScore).
LexOrder == << <<"911">>, <<"chemo">>, <<"dose">>, <<"immuno">>, <<"radiation">> >>

MembersAbove(R, q) ==
    (IF BulkScore >= R.popular[q] THEN R.popBulk ELSE 0)
    + Cardinality({p \in DOMAIN R.popular :
          \/ R.popular[p] > R.popular[q]
          \/ R.popular[p] = R.popular[q] /\ IndexOf(LexOrder, p) > IndexOf(LexOrder, q)})

\* zrange(key, -n, -1): the followed members among the n highest ranked.
ZRangeTop(R, n) == {q \in DOMAIN R.popular : MembersAbove(R, q) < n}

\* The popularity test with score >= 10 in place of score > 10.
IsPopularFromTen(R, query) ==
    \E cached_query \in ZRangeTop(R, popular_window) :
        cached_query = Normalize(query) /\ R.popular[cached_query] >= popular_min_score

_is_popular_query(R, query) ==
    \E cached_query \in ZRangeTop(R, popular_window) :
        cached_query = Normalize(query) /\ R.popular[cached_query] > popular_min_score

\* _calculate_ttl; confidence in units of 1/1728000, response.get default 0.5
_calculate_ttl(R, query, response) ==
    IF _is_popular_query(R, query) THEN popular_query_ttl
    ELSE IF response.confidence * 10 > 8 * 1728000 THEN (default_ttl * 3) \div 2
    ELSE IF response.confidence * 10 < 5 * 1728000 THEN default_ttl \div 2
    ELSE default_ttl

\* _update_popular_queries: zincrby 1, then zremrangebyrank(0, -1001)
_update_popular_queries(R, query) ==
    LET q == Normalize(query)
        inc == [R EXCEPT !.popular =
                   Put(@, q, IF q \in DOMAIN @ THEN @[q] + 1 ELSE 1)]
        kept == ZRangeTop(inc, popular_keep)
    IN [inc EXCEPT !.popular = Del(@, DOMAIN @ \ kept),
                   !.popBulk = Min(@, popular_keep)]

\* _store_query_embedding: hset
_store_query_embedding(R, query, cache_key) ==
    [R EXCEPT !.embeddings = Put(@, cache_key, Encode(Normalize(query)))]

\* redis.sweep records what the last cache write's _evict_if_needed did.
NoSweep == [ran |-> FALSE, n |-> 0, removed |-> 0, evicted |-> {}]

\* The reverse order: newest first.
SortsAfter(a, b) ==
    \/ a.cached_at.t > b.cached_at.t
    \/ a.cached_at.t = b.cached_at.t /\ a.cached_at.n > b.cached_at.n
    \/ a.cached_at = b.cached_at /\ a.hits > b.hits

\* Entry a is sorted before entry b by (cached_at, hits).
SortsBefore(a, b) ==
    \/ a.cached_at.t < b.cached_at.t
    \/ a.cached_at.t = b.cached_at.t /\ a.cached_at.n < b.cached_at.n
    \/ a.cached_at = b.cached_at /\ a.hits < b.hits

\* The place of followed entry k in oldest_keys after the sort, counted from 0.
\* Of the entries the model does not follow, R.bulkEntries were cached before
\* every followed one, and R.lateBulk after the followed ones written up to
\* write R.lateFrom and before every later one.
SortedIndex(R, k) ==
    R.bulkEntries
    + Cardinality({j \in DOMAIN R.results : SortsBefore(R.results[j], R.results[k])})
    + (IF R.results[k].cached_at.n > R.lateFrom THEN R.lateBulk ELSE 0)

\* _evict_if_needed: the first int(len * 0.1) entries of the sorted list are
\* deleted, each with its field of the embeddings hash.
_evict_if_needed(R) ==
    IF DbSize(R) > max_cache_size
    THEN LET n == Cardinality(DOMAIN R.results) + R.bulkEntries + R.lateBulk
             to_remove == n \div 10
             bulkRemoved == Min(to_remove, R.bulkEntries)
             early == Cardinality({j \in DOMAIN R.results :
                                     R.results[j].cached_at.n <= R.lateFrom})
             lateRemoved == Min(R.lateBulk,
                                Max(0, to_remove - R.bulkEntries - early))
             removed == {k \in DOMAIN R.results : SortedIndex(R, k) < to_remove}
         IN [R EXCEPT !.results = Del(@, removed),
                      !.embeddings = Del(@, removed),
                      !.bulkEntries = @ - bulkRemoved,
                      !.lateBulk = @ - lateRemoved,
                      !.sweep = [ran |-> TRUE, n |-> n,
                                 removed |-> bulkRemoved + lateRemoved
                                             + Cardinality(removed),
                                 evicted |-> {[key |-> k,
                                               cached_at |-> R.results[k].cached_at,
                                               hits |-> R.results[k].hits] :
                                              k \in removed}]]
    ELSE R

\* cache_response
cache_response(R, t, query, response, context) ==
    LET cache_key == _generate_cache_key(query, context)
        ttl == _calculate_ttl(R, query, response)
        cache_data == [query |-> query, response |-> response, context |-> context,
                       cached_at |-> [t |-> t, n |-> R.writeSeq + 1], ttl |-> ttl,
                       hits |-> 0, expiry |-> [set |-> TRUE, at |-> t + ttl]]
        stored == [R EXCEPT !.results = Put(@, cache_key, cache_data),
                            !.writeSeq = @ + 1,
                            !.sweep = NoSweep]
    IN _evict_if_needed(
           _update_popular_queries(
               _store_query_embedding(stored, query, cache_key), query))

\* FLUSHDB: every key of the database is gone, whoever wrote it.
FlushDb(R) ==
    [R EXCEPT !.results = [k \in {} |-> 0], !.embeddings = [k \in {} |-> 0],
              !.popular = [q \in {} |-> 0], !.popBulk = 0, !.bulkEntries = 0,
              !.lateBulk = 0, !.otherKeys = 0, !.statsKey = FALSE,
              !.realtimeKey = FALSE, !.alerts = <<>>,
              !.searchCache = [q \in {} |-> 0],
              !.satisfaction = [total_ratings |-> 0, ratings |-> [r \in {} |-> 0]]]

\* invalidate_cache(pattern): `pattern` is the text as a sequence of
\* characters, <<>> for None or "".  The glob rag:query_results:*pattern*
\* selects the keys whose digest holds the text; the embeddings hash is not
\* touched.  The entries the model does not follow stay when the text holds a
\* character that is no hexadecimal digit, and the model follows no other text.
invalidate_cache(R, pattern) ==
    IF pattern # <<>>
    THEN [R EXCEPT !.results = Del(@, {k \in DOMAIN @ : Contains(k, pattern)})]
    ELSE FlushDb(R)

-----------------------------------------------------------------------------
(* Retrieval, reranking, confidence: AdvancedRAGService *)

\* The chunks of the vector store: id, source document, cancer type tag.
Chunks ==
    { [id |-> "c1", source |-> "d1", cancer_type |-> "lung"],
      [id |-> "c2", source |-> "d1", cancer_type |-> "lung"],
      [id |-> "c3", source |-> "d2", cancer_type |-> "general"] }

NoScore == [set |-> FALSE, v |-> 0]

\* _build_search_filters: {} without a cancer type, else the three-way $or.
_build_search_filters(user) ==
    IF user.has_record /\ user.cancer_type # "null"
    THEN {user.cancer_type, "general", "null"}
    ELSE {}

Passes(chunk, filters) == filters = {} \/ chunk.cancer_type \in filters

\* The dedup loop of hybrid_search over the documents of all variants, in
\* order: all_docs as a sequence of [doc_id, document, scores].
RECURSIVE Accumulate(_, _)
Accumulate(all_docs, docs) ==
    IF docs = <<>> THEN all_docs
    ELSE LET doc == Head(docs)
             doc_id == doc.source
             present == \E i \in 1..Len(all_docs) : all_docs[i].doc_id = doc_id
             withDoc == IF present THEN all_docs
                        ELSE Append(all_docs,
                                 [doc_id |-> doc_id, document |-> doc, scores |-> <<>>])
             i == CHOOSE j \in 1..Len(withDoc) : withDoc[j].doc_id = doc_id
             similarity == 16 - Len(withDoc[i].scores) * 2
         IN Accumulate([withDoc EXCEPT ![i].scores = Append(@, similarity)], Tail(docs))

RECURSIVE Flatten(_)
Flatten(ss) == IF ss = <<>> THEN <<>> ELSE Head(ss) \o Flatten(Tail(ss))

\* list.sort(key=relevance_score, reverse=True): stable, descending.
RECURSIVE SortByRelevance(_)
SortByRelevance(rs) ==
    IF rs = <<>> THEN <<>>
    ELSE LET i == CHOOSE j \in 1..Len(rs) :
                     /\ \A k \in 1..Len(rs) : rs[k].relevance_score <= rs[j].relevance_score
                     /\ \A k \in 1..(j - 1) : rs[k].relevance_score < rs[j].relevance_score
         IN <<rs[i]>> \o SortByRelevance(SubSeq(rs, 1, i - 1) \o SubSeq(rs, i + 1, Len(rs)))

\* x.rerank_score or 0
RerankKey(r) == IF r.rerank_score.set THEN r.rerank_score.v ELSE 0

\* list.sort(key=rerank_score or 0, reverse=True): stable, descending.
RECURSIVE SortByRerank(_)
SortByRerank(rs) ==
    IF rs = <<>> THEN <<>>
    ELSE LET i == CHOOSE j \in 1..Len(rs) :
                     /\ \A k \in 1..Len(rs) : RerankKey(rs[k]) <= RerankKey(rs[j])
                     /\ \A k \in 1..(j - 1) : RerankKey(rs[k]) < RerankKey(rs[j])
         IN <<rs[i]>> \o SortByRerank(SubSeq(rs, 1, i - 1) \o SubSeq(rs, i + 1, Len(rs)))

\* hybrid_search past its cache check: variantDocs[v] is what the retriever
\* gives for variant v.  relevance_score = np.mean(scores).
SearchResults(variantDocs) ==
    LET all_docs == Accumulate(<<>>, Flatten(variantDocs))
        results == [i \in 1..Len(all_docs) |->
                       [document |-> all_docs[i].document,
                        relevance_score |->
                            SumSeq(all_docs[i].scores) \div Len(all_docs[i].scores),
                        rerank_score |-> NoScore]]
    IN SortByRelevance(results)

\* hybrid_search: [results, db].  The Django cache is read first; a cached
\* list that is empty counts as no cached list.
SearchCacheHit(R, query) ==
    query \in DOMAIN R.searchCache /\ R.searchCache[query].results # <<>>

hybrid_search(R, t, query, variantDocs) ==
    IF SearchCacheHit(R, query)
    THEN [results |-> R.searchCache[query].results, db |-> R]
    ELSE LET results == SearchResults(variantDocs)
         IN [results |-> Take(results, retrieval_k),
             db |-> [R EXCEPT !.searchCache =
                        Put(@, query, [results |-> Take(results, retrieval_k),
                                       expire_at |-> t + search_cache_ttl])]]

\* rerank_results.  reranker = [available, fails, scores]: scores[i] is what
\* predict gives for the i-th pair.
rerank_results(results, reranker) ==
    IF results = <<>> \/ ~reranker.available THEN results
    ELSE IF reranker.fails THEN Take(results, rerank_k)
    ELSE Take(SortByRerank([i \in 1..Len(results) |->
                 [results[i] EXCEPT !.rerank_score =
                     [set |-> TRUE, v |-> reranker.scores[i]]]]), rerank_k)

\* r.rerank_score or r.relevance_score
ScoreOf(r) ==
    IF r.rerank_score.set /\ r.rerank_score.v # 0
    THEN r.rerank_score.v ELSE r.relevance_score

\* mean * (1 - variance) of the top scores, returned as it is.
ConfidenceUnclamped(results) ==
    IF results = <<>> THEN 0
    ELSE LET top_scores == [i \in 1..Min(3, Len(results)) |-> ScoreOf(results[i])]
             n == Len(top_scores)
             S == SumSeq(top_scores)
             Q == SumSeq([i \in 1..n |-> top_scores[i] * top_scores[i]])
         IN (S * (400 * n * n - n * Q + S * S)) * (216 \div (n * n * n))

\* calculate_confidence, in units of 1/1728000: with S the sum and Q the sum
\* of squares of the n top scores a_i/20,
\*   mean = S/(20n), variance = (nQ - S^2)/(400n^2),
\*   mean * (1 - variance) = S(400n^2 - nQ + S^2)/(8000n^3).
calculate_confidence(results) ==
    IF results = <<>> THEN 0
    ELSE LET top_scores == [i \in 1..Min(3, Len(results)) |-> ScoreOf(results[i])]
             n == Len(top_scores)
             S == SumSeq(top_scores)
             Q == SumSeq([i \in 1..n |-> top_scores[i] * top_scores[i]])
             confidence == (S * (400 * n * n - n * Q + S * S)) * (216 \div (n * n * n))
         IN Min(Max(confidence, 0), 1728000)

\* confidence < a/b,  confidence > a/b
ConfLT(c, ab) == c * ab[2] < ab[1] * 1728000

ConfGT(c, ab) == c * ab[2] > ab[1] * 1728000

\* is_emergency_message: a keyword occurs in the lowered message ('911' is
\* the one keyword the model's messages can hold).
emergency_keywords == { <<"911">> }

is_emergency_message(message) ==
    \E keyword \in emergency_keywords : Contains(Lower(message), keyword)

-----------------------------------------------------------------------------
(* The monitor: RAGMonitor *)

\* thresholds['response_time'] = 5.0 s, thresholds['confidence'] = 0.5
response_time_threshold == 5
alert_confidence_threshold == <<5, 10>>

\* _check_alerts: the alerts of one query, in order.
_check_alerts(metrics) ==
    (IF metrics.total_duration > response_time_threshold
     THEN << [type |-> "slow_response", query_id |-> metrics.query_id] >> ELSE <<>>)
    \o
    (IF ConfLT(metrics.confidence_score, alert_confidence_threshold)
     THEN << [type |-> "low_confidence", query_id |-> metrics.query_id] >> ELSE <<>>)

\* json.dumps encodes str, int, float, bool and None (and lists and dicts of
\* them); for a value of any other type, a datetime among them, it raises
\* TypeError.
JsonEncodable(type) == type \in {"str", "int", "float", "bool", "None"}

\* _send_alert: [raised, db].  alert_data holds asdict(metrics), and
\* json.dumps(alert_data) is evaluated before rpush is called.
_send_alert(R, alert, metrics) ==
    IF ~JsonEncodable(metrics.timestamp)
    THEN [raised |-> TRUE, db |-> R]
    ELSE [raised |-> FALSE, db |-> [R EXCEPT !.alerts = Append(@, alert)]]

\* The loop `for alert in alerts: self._send_alert(alert, metrics)`.
RECURSIVE SendAlerts(_, _, _)
SendAlerts(R, alerts, metrics) ==
    IF alerts = <<>> THEN [raised |-> FALSE, db |-> R]
    ELSE Bind(_send_alert(R, Head(alerts), metrics), LAMBDA sent :
            IF sent.raised THEN sent ELSE SendAlerts(sent.db, Tail(alerts), metrics))

\* record_query: [raised, rows, db].  The row is created first (query_id is
\* unique: a second row with the same id is refused); the Redis calls of
\* _update_realtime_metrics follow and raise when Redis is down; then
\* _check_alerts sends the alerts, outside any exception handler.
record_query(R, rows, metrics, fail) ==
    IF \E i \in 1..Len(rows) : rows[i].query_id = metrics.query_id
    THEN [raised |-> TRUE, rows |-> rows, db |-> R]
    ELSE IF fail = "monitor_redis"
    THEN [raised |-> TRUE, rows |-> Append(rows, metrics), db |-> R]
    ELSE Bind(SendAlerts([R EXCEPT !.realtimeKey = TRUE], _check_alerts(metrics),
                         metrics),
              LAMBDA sent : [raised |-> sent.raised, rows |-> Append(rows, metrics),
                             db |-> sent.db])

\* _update_satisfaction_metrics: hincrby rating_<rating> and total_ratings on
\* today's satisfaction hash.
_update_satisfaction_metrics(R, rating) ==
    [R EXCEPT !.satisfaction =
        [total_ratings |-> @.total_ratings + 1,
         ratings |-> Put(@.ratings, rating,
                         (IF rating \in DOMAIN @.ratings THEN @.ratings[rating] ELSE 0)
                         + 1)]]

\* RAGMetrics.objects.get(query_id=query_id): the rows found.  query_id is
\* [kind, v]: the uuid of a query, or the primary key of a chat message, which
\* is a uuid of its own and the query_id of no row.
RowsOf(rows, query_id) ==
    {i \in 1..Len(rows) : query_id.kind = "query_uuid" /\ rows[i].query_id = query_id.v}

\* record_user_feedback: [raised, found, rows, db].  DoesNotExist is caught
\* and logged.
record_user_feedback(R, rows, query_id, rating, feedback) ==
    IF RowsOf(rows, query_id) # {}
    THEN LET i == CHOOSE j \in RowsOf(rows, query_id) : TRUE
         IN [raised |-> FALSE, found |-> TRUE,
             rows |-> [rows EXCEPT ![i].user_rating = rating,
                                   ![i].user_feedback = feedback],
             db |-> _update_satisfaction_metrics(R, rating)]
    ELSE [raised |-> FALSE, found |-> FALSE, rows |-> rows, db |-> R]

-----------------------------------------------------------------------------
(* Document ingestion: IntegratedChatService.process_document.  Each         *)
(* statement of a run is a step of its own: nothing makes a run atomic.      *)
(* ingest = [chunks, vectors, indexed, runs]: the ChatDocumentChunk rows of   *)
(* the document, the entries of the vector store made from it, the           *)
(* document's indexed flag, and each run's place (pc) and chunk index (i).   *)
(* A row or entry is [id, chunk_index, content]: content 0 is the document   *)
(* as processed before, content 1 as the runs process it.                    *)

MaxRuns == 2

OldChunks == 2

NewChunks == 2

\* No document followed.
NoIngest ==
    [chunks |-> {}, vectors |-> {}, indexed |-> FALSE, runs |-> <<>>]

\* The document processed before: its chunks stored and indexed.
ProcessedDocument ==
    LET old == {[id |-> <<0, i>>, chunk_index |-> i, content |-> 0] :
                  i \in 0..(OldChunks - 1)}
    IN [chunks |-> old, vectors |-> old, indexed |-> TRUE,
        runs |-> [p \in 1..MaxRuns |-> [pc |-> "idle", i |-> 0]]]

\* unique_together = ['document', 'chunk_index']: the row is refused when a
\* row of the document has its chunk_index.
Refused(G, row) ==
    \E c \in G.chunks : c.chunk_index = row.chunk_index /\ c.id # row.id

\* The chunk run p is working on.
ChunkOf(G, p) ==
    [id |-> <<p, G.runs[p].i>>, chunk_index |-> G.runs[p].i, content |-> 1]

\* The except branch: document.indexed = False, document.save(), raise.
RunFails(G, p) ==
    [G EXCEPT !.indexed = FALSE, !.runs[p].pc = "failed"]

\* document.chunks.all().delete()
DeleteChunks(G, p) ==
    [G EXCEPT !.chunks = {}, !.runs[p] = [pc |-> IF NewChunks > 0 THEN "create"
                                                 ELSE "finish", i |-> 0]]

\* ChatDocumentChunk.objects.create(document=document, chunk_index=i, ...)
CreateChunk(G, p) ==
    IF Refused(G, ChunkOf(G, p)) THEN RunFails(G, p)
    ELSE [G EXCEPT !.chunks = @ \cup {ChunkOf(G, p)}, !.runs[p].pc = "index"]

\* vector_store.add_documents([chunk_doc], ids=[str(chunk.id)])
AddToVectorStore(G, p) ==
    [G EXCEPT !.vectors = @ \cup {ChunkOf(G, p)}, !.runs[p].pc = "save"]

\* chunk.save(): an UPDATE of the row; when the row is gone (a delete of
\* another run), Django inserts it again, which the constraint may refuse.
SaveChunk(G, p) ==
    IF Refused(G, ChunkOf(G, p)) /\ ChunkOf(G, p) \notin G.chunks
    THEN RunFails(G, p)
    ELSE [G EXCEPT !.chunks = @ \cup {ChunkOf(G, p)},
                   !.runs[p] = [pc |-> IF @.i + 1 < NewChunks THEN "create"
                                       ELSE "finish", i |-> @.i + 1]]

\* document.indexed = True, document.save()
MarkIndexed(G, p) ==
    [G EXCEPT !.indexed = TRUE, !.runs[p].pc = "done"]

-----------------------------------------------------------------------------
(* The query pipeline: IntegratedChatService.generate_response.            *)
(* W = [redis, rows, msgs, sessions] is everything a call can change.       *)
(* env holds what the call's collaborators do:                              *)
(*   fail        which collaborator fails during this call, or "none"       *)
(*   order       the order in which HGETALL gives the candidate fields      *)
(*   variantDocs what the retriever returns for each query variant          *)
(*   reranker    [available, fails, scores]                                 *)
(*   duration    the seconds the call takes                                 *)

Content(kind, q, user) == [kind |-> kind, q |-> q, user |-> user.id]

\* QueryMetrics(...) as constructed at the start of generate_response;
\* timestamp holds the type of the value: datetime.now() is a datetime.
NewMetrics(query_id, env) ==
    [query_id |-> query_id, total_duration |-> 0, retrieval_count |-> 0,
     confidence_score |-> 0, fallback_used |-> FALSE, cache_hit |-> FALSE,
     cache_type |-> "none", response_kind |-> "none", user_rating |-> 0,
     user_feedback |-> "none", timestamp |-> "datetime"]

\* _save_and_return: [raised, W].  Two messages, then the metrics record.
_save_and_return(W, user, message_text, content, metrics, env) ==
    Bind(record_query(W.redis, W.rows,
                      [metrics EXCEPT !.response_kind = content.kind,
                                      !.total_duration = env.duration],
                      env.fail),
         LAMBDA rec :
            [raised |-> rec.raised,
             W |-> [W EXCEPT !.msgs = @ \o << [role |-> "user", kind |-> "query"],
                                              [role |-> "assistant",
                                               kind |-> content.kind] >>,
                             !.rows = rec.rows, !.redis = rec.db]])

\* IntegratedChatService.record_feedback(message_id, rating, feedback):
\* [raised, found, rows, db].  message_id is the place of the message in msgs
\* (all of one session, in created_at order); the query is taken to be the
\* latest user message at or before it, and that message's primary key is
\* passed as query_id.  Every exception is caught and logged.
record_feedback(R, rows, msgs, message_id, rating, feedback) ==
    LET before == {j \in 1..Len(msgs) : j <= message_id /\ msgs[j].role = "user"}
    IN IF message_id \notin 1..Len(msgs) \/ before = {}
       THEN [raised |-> FALSE, found |-> FALSE, rows |-> rows, db |-> R]
       ELSE record_user_feedback(R, rows,
                [kind |-> "message_pk",
                 v |-> CHOOSE j \in before : \A k \in before : k <= j],
                rating, feedback)

\* The cache write gate of generate_response: not fallback and confidence > 0.6
cache_write_threshold == <<6, 10>>

\* The gate without the fallback test.
ShouldCacheAnyResponse(fallback_used, confidence) ==
    ConfGT(confidence, cache_write_threshold)

ShouldCache(fallback_used, confidence) ==
    ~fallback_used /\ ConfGT(confidence, cache_write_threshold)

\* The fallback gate of _perform_rag_retrieval
UseFallback(results, confidence) ==
    results = <<>> \/ ConfLT(confidence, confidence_threshold)

\* What one run of the try block gives.  gate_confidence is the confidence
\* _perform_rag_retrieval computed (metrics holds it once the call returned).
Outcome(exc, session_bound, W, metrics, content, lookup, stages, results, wrote) ==
    [exc |-> exc # "none", cause |-> exc, session_bound |-> session_bound,
     W |-> W, metrics |-> metrics,
     content |-> content, lookup |-> lookup, stages |-> stages,
     n_results |-> Len(results), gate_confidence |-> metrics.confidence_score,
     wrote |-> wrote]

NoContent == [kind |-> "none", q |-> <<>>, user |-> "none"]

\* The stages a call has invoked: retrieval, reranking, generation.
NoStages == [retrieval |-> FALSE, rerank |-> FALSE, generation |-> FALSE]

\* The outcome of a try block that ends in _save_and_return.
Saved(W, user, message_text, content, metrics, env, lookup, stages, results, wrote) ==
    Bind(_save_and_return(W, user, message_text, content, metrics, env), LAMBDA sr :
       Outcome(IF sr.raised THEN "monitor" ELSE "none", TRUE, sr.W, metrics, content,
               lookup, stages, results, wrote))

\* _perform_rag_retrieval: [exc, db, results, confidence, fallback_used,
\* stages].  exc names the call that raised, or is "none".
_perform_rag_retrieval(R, t, user, message_text, env) ==
    IF ~SearchCacheHit(R, message_text) /\ env.fail = "vector"
    THEN [exc |-> "vector", db |-> R, results |-> <<>>, confidence |-> 0,
          fallback_used |-> FALSE, stages |-> [NoStages EXCEPT !.retrieval = TRUE]]
    ELSE Bind(hybrid_search(R, t, message_text, env.variantDocs), LAMBDA hs :
         Bind(rerank_results(hs.results, env.reranker), LAMBDA results :
         Bind(calculate_confidence(results), LAMBDA confidence :
            [exc |-> IF ~UseFallback(results, confidence) /\ env.fail = "llm"
                     THEN "llm" ELSE "none",
             db |-> hs.db, results |-> results, confidence |-> confidence,
             fallback_used |-> UseFallback(results, confidence),
             stages |-> [retrieval |-> TRUE, rerank |-> TRUE,
                         generation |-> ~UseFallback(results, confidence)]])))

\* The try block after a cache miss: _perform_rag_retrieval, the metrics
\* update, the cache write, _save_and_return.
AfterMiss(W, t, user, message_text, metrics, env) ==
    Bind(_perform_rag_retrieval(W.redis, t, user, message_text, env), LAMBDA r :
       IF r.exc # "none"
       THEN [Outcome(r.exc, TRUE, [W EXCEPT !.redis = r.db], metrics, NoContent,
                     "miss", r.stages, r.results, FALSE)
                EXCEPT !.gate_confidence = r.confidence]
       ELSE
       LET m == [metrics EXCEPT !.retrieval_count = Len(r.results),
                                !.confidence_score = r.confidence,
                                !.fallback_used = r.fallback_used]
           content == Content(IF r.fallback_used THEN "not_found" ELSE "generated",
                              message_text, user)
       IN IF ShouldCache(r.fallback_used, r.confidence)
          THEN IF env.fail = "cache_set"
               THEN Outcome("cache_set", TRUE, [W EXCEPT !.redis = r.db], m, content,
                            "miss", r.stages, r.results, FALSE)
               ELSE Saved([W EXCEPT !.redis =
                              cache_response(r.db, t, message_text,
                                  [content |-> content, confidence |-> r.confidence,
                                   cache_type |-> "generated"],
                                  _get_user_context(user))],
                          user, message_text, content, m, env, "miss", r.stages,
                          r.results, TRUE)
          ELSE Saved([W EXCEPT !.redis = r.db], user, message_text, content, m, env,
                     "miss", r.stages, r.results, FALSE))

\* The try block of generate_response.
TryBlock(W, t, user, message_text, metrics, env) ==
    IF env.fail = "session"
    THEN Outcome("session", FALSE, W, metrics, NoContent, "none", NoStages, <<>>, FALSE)
    ELSE IF is_emergency_message(message_text)
    THEN Saved([W EXCEPT !.sessions = @ \cup {user.id}], user, message_text,
               Content("emergency", message_text, user),
               metrics, env, "none", NoStages, <<>>, FALSE)
    ELSE IF env.fail = "cache_get"
    THEN Outcome("cache_get", TRUE, [W EXCEPT !.sessions = @ \cup {user.id}], metrics,
                 NoContent, "failed", NoStages, <<>>, FALSE)
    ELSE Bind(get_cached_response(W.redis, message_text, _get_user_context(user),
                                  env.order),
              LAMBDA look :
                 IF look.type # "miss"
                 THEN Saved([W EXCEPT !.sessions = @ \cup {user.id}, !.redis = look.db],
                            user, message_text, look.payload.content,
                            [metrics EXCEPT
                                !.cache_hit = TRUE,
                                !.cache_type = IF look.payload.cache_type = "none"
                                               THEN "exact" ELSE look.payload.cache_type,
                                !.confidence_score = look.payload.confidence],
                            env, look.type, NoStages, <<>>, FALSE)
                 ELSE AfterMiss([W EXCEPT !.sessions = @ \cup {user.id},
                                          !.redis = look.db],
                                t, user, message_text, metrics, env))

\* generate_response: the try block, and on an exception the handler, which
\* saves the apology through the session the try block bound.
generate_response(W, t, query_id, user, message_text, env) ==
    Bind(TryBlock(W, t, user, message_text, NewMetrics(query_id, env), env),
         LAMBDA try :
            IF ~try.exc
            THEN try @@ [raised |-> FALSE, handled |-> FALSE]
            ELSE IF ~try.session_bound
            THEN try @@ [raised |-> TRUE, handled |-> TRUE]
            ELSE Bind(_save_and_return(try.W, user, message_text,
                                       Content("apology", message_text, user),
                                       [try.metrics EXCEPT !.fallback_used = TRUE], env),
                      LAMBDA sr :
                         [try EXCEPT !.W = sr.W,
                                     !.metrics = [@ EXCEPT !.fallback_used = TRUE],
                                     !.content = Content("apology", message_text, user)]
                         @@ [raised |-> sr.raised, handled |-> TRUE]))

-----------------------------------------------------------------------------
(* Inputs of the calls *)

\* The collaborator that fails during a call.
FailureModes ==
    {"none", "session", "cache_get", "vector", "llm", "cache_set", "monitor_redis"}

\* Seconds a call takes.
Durations == {1}

\* predict's score: 0.9
RerankScores == {18}

\* What the retriever returns, per query variant (expand_query gives the
\* query alone when the expansion call fails).
RetrieverOutputs ==
    { << <<>> >>,
      << << [id |-> "c1", source |-> "d1", cancer_type |-> "lung"] >> >>,
      << << [id |-> "c1", source |-> "d1", cancer_type |-> "lung"],
            [id |-> "c2", source |-> "d1", cancer_type |-> "lung"] >>,
         << [id |-> "c1", source |-> "d1", cancer_type |-> "lung"],
            [id |-> "c2", source |-> "d1", cancer_type |-> "lung"] >> >> }

\* The retriever applies the filter: every document returned passes it.
RetrieverOutputsFor(user) ==
    {vd \in RetrieverOutputs :
        \A v \in 1..Len(vd) : \A i \in 1..Len(vd[v]) :
            vd[v][i] \in Chunks /\ Passes(vd[v][i], _build_search_filters(user))}

\* The reranker: not loaded, loaded and failing, or loaded and scoring n pairs.
Rerankers(n) ==
    { [available |-> FALSE, fails |-> FALSE, scores |-> <<>>],
      [available |-> TRUE, fails |-> TRUE, scores |-> <<>>] }
    \cup { [available |-> TRUE, fails |-> FALSE, scores |-> sc] :
              sc \in [1..n -> RerankScores] }

NoReranker == [available |-> FALSE, fails |-> FALSE, scores |-> <<>>]

-----------------------------------------------------------------------------
(* Initial state: the Redis database as the process finds it, then          *)
(* IntegratedChatService.__init__, which warms the cache.                   *)

\* What Redis holds of queries the model does not follow: cache entries (all
\* cached earlier than any followed entry), ranking members, other keys.  The
\* cache has been in use: it is six entries short of max_cache_size.
Backgrounds ==
    { [bulkEntries |-> max_cache_size - 6, popBulk |-> popular_window - 1,
       otherKeys |-> 0] }

EmptyRedis(bg, scores) ==
    [results |-> [k \in {} |-> 0], embeddings |-> [k \in {} |-> 0],
     popular |-> scores, popBulk |-> bg.popBulk, bulkEntries |-> bg.bulkEntries,
     otherKeys |-> bg.otherKeys, statsKey |-> FALSE, realtimeKey |-> FALSE,
     alerts |-> <<>>, searchCache |-> [q \in {} |-> 0], writeSeq |-> 0,
     sweep |-> NoSweep, lateBulk |-> 0, lateFrom |-> 0,
     satisfaction |-> [total_ratings |-> 0, ratings |-> [r \in {} |-> 0]]]

\* COMMON_MEDICAL_QUERIES[i]["response"]: content and confidence 0.9, no
\* cache_type.
WarmResponse(query, confidence) ==
    [content |-> [kind |-> "warm", q |-> query, user |-> "none"],
     confidence |-> confidence, cache_type |-> "none"]

\* warm_cache(common_queries): cache_response for every item, context {}.
RECURSIVE warm_cache(_, _, _)
warm_cache(R, t, items) ==
    IF items = <<>> THEN R
    ELSE warm_cache(cache_response(R, t, Head(items).query, Head(items).response,
                                   EmptyContext),
                    t, Tail(items))

COMMON_MEDICAL_QUERIES ==
    [i \in 1..Len(WarmQueries) |->
        [query |-> WarmQueries[i], response |-> WarmResponse(WarmQueries[i], 1555200)]]

NoLast ==
    [id |-> 0, user |-> "none", q |-> <<>>, context |-> EmptyContext,
     cause |-> "none", raised |-> FALSE, handled |-> FALSE, kind |-> "none",
     lookup |-> "none", hit_key |-> <<>>, hits_before |-> 0, payload_tag |-> "none",
     cache_type |-> "none",
     stages |-> NoStages, n_results |-> 0, confidence |-> 0, gate_confidence |-> 0,
     fallback_used |-> FALSE,
     wrote |-> FALSE, written |-> NoPayload, ttl |-> 0]

InitWith(bg, scores) ==
    /\ now = 0
    /\ redis = warm_cache(EmptyRedis(bg, scores), 0, COMMON_MEDICAL_QUERIES)
    /\ metricsDb = <<>>
    /\ messages = <<>>
    /\ sessions = {}
    /\ nQueries = 0
    /\ last = NoLast
    /\ ingest = NoIngest
    /\ accounts = NoAccounts
    /\ audit = NoAudit
    /\ lookups = NoLookups

Init == \E bg \in Backgrounds : InitWith(bg, [q \in {} |-> 0])

-----------------------------------------------------------------------------
(* Actions *)

\* One call of generate_response(user, message_text).
GenerateResponse ==
    /\ nQueries < MaxQueries
    /\ \E user \in Users, message_text \in RawQueries,
          fail \in FailureModes, duration \in Durations :
        LET W == [redis |-> redis, rows |-> metricsDb, msgs |-> messages,
                  sessions |-> sessions]
            context == _get_user_context(user)
            key == _generate_cache_key(message_text, context)
            looks == ~is_emergency_message(message_text)
                     /\ fail \notin {"session", "cache_get"}
        IN \E order \in (IF looks /\ ~ExactHit(redis, key)
                         THEN Orderings(Candidates(redis, message_text))
                         ELSE {<<>>}) :
           \E look \in {get_cached_response(redis, message_text, context, order)} :
           LET retrieves == looks /\ look.type = "miss"
                            /\ ~SearchCacheHit(redis, message_text) /\ fail # "vector"
               reranks == looks /\ look.type = "miss"
                          /\ (SearchCacheHit(redis, message_text) \/ fail # "vector")
           IN \E variantDocs \in (IF retrieves THEN RetrieverOutputsFor(user)
                                  ELSE {<< <<>> >>}) :
              \E reranker \in (IF reranks
                               THEN Rerankers(Len(hybrid_search(redis, now, message_text,
                                                      variantDocs).results))
                               ELSE {NoReranker}) :
                LET env == [fail |-> fail, order |-> order, variantDocs |-> variantDocs,
                            reranker |-> reranker, duration |-> duration]
                IN \E out \in {generate_response(W, now, nQueries + 1, user,
                                                 message_text, env)} :
                   /\ redis' = out.W.redis
                   /\ metricsDb' = out.W.rows
                   /\ messages' = out.W.msgs
                   /\ sessions' = out.W.sessions
                   /\ nQueries' = nQueries + 1
                   /\ last' =
                        [id |-> nQueries + 1, user |-> user.id, q |-> message_text,
                         context |-> context,
                         cause |-> out.cause, raised |-> out.raised,
                         handled |-> out.handled, kind |-> out.content.kind,
                         lookup |-> out.lookup,
                         hit_key |-> IF out.lookup \in {"exact_hit", "similar_hit"}
                                     THEN look.key ELSE <<>>,
                         hits_before |-> IF out.lookup \in {"exact_hit", "similar_hit"}
                                         THEN redis.results[look.key].hits ELSE 0,
                         payload_tag |-> IF out.lookup \in {"exact_hit", "similar_hit"}
                                         THEN look.payload.cache_type ELSE "none",
                         cache_type |-> out.metrics.cache_type,
                         stages |-> out.stages, n_results |-> out.n_results,
                         confidence |-> out.metrics.confidence_score,
                         gate_confidence |-> out.gate_confidence,
                         fallback_used |-> out.metrics.fallback_used,
                         wrote |-> out.wrote,
                         written |-> IF out.wrote THEN out.W.redis.results[key].response
                                     ELSE NoPayload,
                         ttl |-> IF out.wrote THEN out.W.redis.results[key].ttl ELSE 0]
                   /\ now' = now
                   /\ ingest' = ingest
                   /\ UNCHANGED <<accounts, audit, lookups>>

\* Time passes; Redis drops the keys whose time to live has passed.
Tick ==
    /\ now + TickStep <= MaxTime
    /\ now' = now + TickStep
    /\ redis' = Purge(redis, now + TickStep)
    /\ UNCHANGED <<metricsDb, messages, sessions, nQueries, last, ingest, accounts, audit, lookups>>

Next == GenerateResponse \/ Tick

Spec == Init /\ [][Next]_vars

-----------------------------------------------------------------------------
(* cache_response on its own: the popularity ranking as earlier writes left  *)
(* it, then calls of rag_cache.cache_response(query, response, context).     *)

MaxWrites == 2

\* Members of the ranking the model does not follow, around the window size.
PopBulks == {popular_window - 2, popular_window - 1, popular_window}

\* Ranking scores earlier writes left, around the popularity score.
PriorScores == {popular_min_score, popular_min_score + 1}

\* Confidences of the responses written: 0.3, 0.65, 0.9
WriteConfidences == {518400, 1123200, 1555200}

NoWrite ==
    [op |-> "none", q |-> <<>>, confidence |-> 0, score_before |-> 0,
     above_before |-> 0, ttl |-> 0]

InitTTL ==
    /\ now = 0
    /\ \E popBulk \in PopBulks, scores \in [{<<"chemo">>, <<"dose">>} -> PriorScores] :
          redis = EmptyRedis([bulkEntries |-> 0, popBulk |-> popBulk, otherKeys |-> 0],
                             scores)
    /\ metricsDb = <<>>
    /\ messages = <<>>
    /\ sessions = {}
    /\ nQueries = 0
    /\ last = NoWrite
    /\ ingest = NoIngest
    /\ accounts = NoAccounts
    /\ audit = NoAudit
    /\ lookups = NoLookups

\* One call of cache_response; last records the query's score and the number
\* of ranking members above it before the call, and the ttl the entry got.
CacheResponse ==
    /\ redis.writeSeq < MaxWrites
    /\ \E query \in RawQueries, confidence \in WriteConfidences,
          c \in 1..Len(ContextsSeq) :
        LET nq == Normalize(query)
            ranked == nq \in DOMAIN redis.popular
            response == [content |-> Content("generated", query, [id |-> "none"]),
                         confidence |-> confidence, cache_type |-> "generated"]
        IN \E db \in {cache_response(redis, now, query, response, ContextsSeq[c])} :
             /\ redis' = db
             /\ last' =
                  [op |-> "cache_response", q |-> nq, confidence |-> confidence,
                   score_before |-> IF ranked THEN redis.popular[nq] ELSE 0,
                   above_before |-> IF ranked THEN MembersAbove(redis, nq)
                                    ELSE redis.popBulk + Cardinality(DOMAIN redis.popular),
                   ttl |-> db.results[_generate_cache_key(query, ContextsSeq[c])].ttl]
    /\ UNCHANGED <<now, metricsDb, messages, sessions, nQueries, ingest, accounts, audit, lookups>>

NextTTL == CacheResponse \/ Tick

SpecTTL == InitTTL /\ [][NextTTL]_vars

-----------------------------------------------------------------------------
(* The cache manager on its own: a Redis database as earlier use left it,    *)
(* then calls of cache_response, get_cached_response and invalidate_cache    *)
(* (the last one as process_document makes it, or without a pattern).        *)

MaxOps == 3

\* document.cancer_type.name as a sequence of characters.
NameChars(name) ==
    IF name = "lung" THEN <<"l", "u", "n", "g">> ELSE <<>>

\* What Redis holds when the service starts: a cache in use, a cache that an
\* earlier run filled to twice max_cache_size, and a small cache in a database
\* whose other keys (sessions, Django cache) alone exceed max_cache_size; the
\* late entries of the last one are written after the warm-up.
CacheBackgrounds ==
    { [bulkEntries |-> max_cache_size - 6, popBulk |-> popular_window - 1,
       otherKeys |-> 0, lateBulk |-> 0],
      [bulkEntries |-> 2 * max_cache_size, popBulk |-> popular_window - 1,
       otherKeys |-> 0, lateBulk |-> 0],
      [bulkEntries |-> 0, popBulk |-> popular_window - 1,
       otherKeys |-> 0, lateBulk |-> 17] }

NoCacheOp ==
    [op |-> "none", q |-> <<>>, context |-> EmptyContext, type |-> "none",
     key |-> <<>>, at |-> 0, written_at |-> 0, ttl |-> 0, fields_kept |-> TRUE,
     expiry_kept |-> TRUE, pattern |-> <<>>, cancer_type |-> "none"]

\* The other keys of the small cache's database grow past max_cache_size once
\* the late entries are written.
InitCache ==
    /\ now = 0
    /\ \E bg \in CacheBackgrounds :
          \E warm \in {warm_cache(EmptyRedis(bg, [q \in {} |-> 0]), 0,
                                  COMMON_MEDICAL_QUERIES)} :
             redis = [warm EXCEPT !.lateBulk = bg.lateBulk,
                                  !.lateFrom = warm.writeSeq,
                                  !.otherKeys = IF bg.lateBulk > 0
                                                THEN max_cache_size ELSE @]
    /\ metricsDb = <<>>
    /\ messages = <<>>
    /\ sessions = {}
    /\ nQueries = 0
    /\ last = NoCacheOp
    /\ ingest = NoIngest
    /\ accounts = NoAccounts
    /\ audit = NoAudit
    /\ lookups = NoLookups

\* rag_cache.cache_response(query, response, context)
CacheWrite ==
    /\ nQueries < MaxOps
    /\ \E query \in RawQueries, c \in 1..Len(ContextsSeq) :
        LET response == [content |-> Content("generated", query, [id |-> "none"]),
                         confidence |-> 1555200, cache_type |-> "generated"]
            key == _generate_cache_key(query, ContextsSeq[c])
        IN \E db \in {cache_response(redis, now, query, response, ContextsSeq[c])} :
             /\ redis' = db
             /\ last' = [NoCacheOp EXCEPT !.op = "cache_response",
                                          !.q = Normalize(query),
                                          !.context = ContextsSeq[c],
                                          !.key = key]
    /\ nQueries' = nQueries + 1
    /\ UNCHANGED <<now, metricsDb, messages, sessions, ingest, accounts, audit, lookups>>

\* rag_cache.get_cached_response(query, context); last records the entry
\* returned as it was before the call, and what the call kept of it.
CacheLookup ==
    /\ nQueries < MaxOps
    /\ \E query \in RawQueries, c \in 1..Len(ContextsSeq) :
        \E order \in Orderings(Candidates(redis, query)) :
        \E look \in {get_cached_response(redis, query, ContextsSeq[c], order)} :
          /\ redis' = look.db
          /\ last' =
               IF look.type = "miss"
               THEN [NoCacheOp EXCEPT !.op = "get_cached_response",
                                      !.q = Normalize(query),
                                      !.context = ContextsSeq[c],
                                      !.type = look.type]
               ELSE LET before == redis.results[look.key]
                        after == look.db.results[look.key]
                    IN [NoCacheOp EXCEPT
                          !.op = "get_cached_response",
                          !.q = Normalize(query),
                          !.context = ContextsSeq[c],
                          !.type = look.type,
                          !.key = look.key,
                          !.at = now,
                          !.written_at = before.cached_at.t,
                          !.ttl = before.ttl,
                          !.fields_kept =
                              /\ after.hits = before.hits + 1
                              /\ [after EXCEPT !.hits = 0, !.expiry = before.expiry]
                                 = [before EXCEPT !.hits = 0],
                          !.expiry_kept = (after.expiry = before.expiry)]
    /\ nQueries' = nQueries + 1
    /\ UNCHANGED <<now, metricsDb, messages, sessions, ingest, accounts, audit, lookups>>

\* The tail of process_document for a document of cancer type lung:
\* invalidate_cache(pattern=document.cancer_type.name); and a direct call of
\* invalidate_cache with a text of hexadecimal digits, or with no pattern.
Invalidate ==
    /\ nQueries < MaxOps
    /\ \E call \in {[pattern |-> NameChars("lung"), cancer_type |-> "lung"],
                      [pattern |-> <<"2">>, cancer_type |-> "none"],
                      [pattern |-> <<>>, cancer_type |-> "none"]} :
          /\ redis' = invalidate_cache(redis, call.pattern)
          /\ last' = [NoCacheOp EXCEPT !.op = "invalidate_cache",
                                       !.pattern = call.pattern,
                                       !.cancer_type = call.cancer_type]
    /\ nQueries' = nQueries + 1
    /\ UNCHANGED <<now, metricsDb, messages, sessions, ingest, accounts, audit, lookups>>

NextCache == CacheWrite \/ CacheLookup \/ Invalidate \/ Tick

SpecCache == InitCache /\ [][NextCache]_vars

-----------------------------------------------------------------------------
(* Reranking and confidence on their own: a candidate list as hybrid_search  *)
(* hands it over, then rerank_results and calculate_confidence as            *)
(* _perform_rag_retrieval calls them.                                        *)

MaxCandidates == 6

\* Relevance scores -0.2, 0.6, 1.2 and what predict gives: -0.5, 0, 1.5
RelevanceValues == {-4, 12, 24}

RankScores == {-10, 0, 30}

\* Candidate lists in descending relevance order, no rerank_score; the i-th
\* candidate is document i.
CandidateLists ==
    UNION { { [i \in 1..n |->
                 [document |-> [id |-> i, source |-> i, cancer_type |-> "general"],
                  relevance_score |-> rel[i], rerank_score |-> NoScore]] :
              rel \in {r \in [1..n -> RelevanceValues] :
                          \A i \in 1..(n - 1) : r[i] >= r[i + 1]} } :
            n \in 0..MaxCandidates }

\* The reranker: not loaded, loaded and failing, or loaded and scoring n pairs.
RankingRerankers(n) ==
    { [available |-> FALSE, fails |-> FALSE, scores |-> <<>>],
      [available |-> TRUE, fails |-> TRUE, scores |-> <<>>] }
    \cup { [available |-> TRUE, fails |-> FALSE, scores |-> sc] :
              sc \in [1..n -> RankScores] }

InitRanking ==
    /\ now = 0
    /\ redis = EmptyRedis([bulkEntries |-> 0, popBulk |-> 0, otherKeys |-> 0],
                          [q \in {} |-> 0])
    /\ metricsDb = <<>>
    /\ messages = <<>>
    /\ sessions = {}
    /\ nQueries = 0
    /\ ingest = NoIngest
    /\ accounts = NoAccounts
    /\ audit = NoAudit
    /\ lookups = NoLookups
    /\ \E results \in CandidateLists :
          last = [op |-> "hybrid_search", input |-> <<>>, reranker |-> NoReranker,
                  output |-> results, confidence |-> 0]

\* results = self.rag_service.rerank_results(message_text, results)
RerankResults ==
    /\ last.op = "hybrid_search"
    /\ \E reranker \in RankingRerankers(Len(last.output)) :
          last' = [op |-> "rerank_results", input |-> last.output,
                   reranker |-> reranker,
                   output |-> rerank_results(last.output, reranker),
                   confidence |-> 0]
    /\ UNCHANGED <<now, redis, metricsDb, messages, sessions, nQueries, ingest, accounts, audit, lookups>>

\* confidence = self.rag_service.calculate_confidence(results)
CalculateConfidence ==
    /\ last.op = "rerank_results"
    /\ last' = [op |-> "calculate_confidence", input |-> last.output,
                reranker |-> last.reranker, output |-> last.output,
                confidence |-> calculate_confidence(last.output)]
    /\ UNCHANGED <<now, redis, metricsDb, messages, sessions, nQueries, ingest, accounts, audit, lookups>>

NextRanking == RerankResults \/ CalculateConfidence

SpecRanking == InitRanking /\ [][NextRanking]_vars

-----------------------------------------------------------------------------
(* Feedback: two queries have been answered and recorded, then feedback is   *)
(* attached through RAGMonitor.record_user_feedback or through               *)
(* IntegratedChatService.record_feedback.                                    *)

MaxFeedback == 2

Ratings == {2, 5}

Comments == {"great", "wrong"}

\* The queries answered before: both generated, confidence 0.8.
AnsweredQueries == 2

RECURSIVE Answered(_, _)
Answered(W, n) ==
    IF n = 0 THEN W
    ELSE LET env == [fail |-> "none", duration |-> 1]
             user == [id |-> "guest"]
         IN _save_and_return(Answered(W, n - 1), user, <<"dose">>,
                             Content("generated", <<"dose">>, user),
                             [NewMetrics(n, env) EXCEPT !.confidence_score = 1382400],
                             env).W

NoFeedback ==
    [op |-> "none", query_id |-> [kind |-> "none", v |-> 0], rating |-> 0,
     feedback |-> "none", raised |-> FALSE, found |-> FALSE, rows_before |-> <<>>,
     repeated |-> FALSE, calls |-> 0]

InitFeedback ==
    /\ now = 0
    /\ \E W \in {Answered([redis |-> EmptyRedis([bulkEntries |-> 0, popBulk |-> 0,
                                                  otherKeys |-> 0], [q \in {} |-> 0]),
                             rows |-> <<>>, msgs |-> <<>>, sessions |-> {"guest"}],
                            AnsweredQueries)} :
          /\ redis = W.redis
          /\ metricsDb = W.rows
          /\ messages = W.msgs
          /\ sessions = W.sessions
    /\ nQueries = AnsweredQueries
    /\ last = NoFeedback
    /\ ingest = NoIngest
    /\ accounts = NoAccounts
    /\ audit = NoAudit
    /\ lookups = NoLookups

\* rag_monitor.record_user_feedback(query_id, rating, feedback), for the
\* query_id of a recorded query or of none.
RecordUserFeedback ==
    /\ last.calls < MaxFeedback
    /\ \E id \in 1..(nQueries + 1), rating \in Ratings, feedback \in Comments :
        LET query_id == [kind |-> "query_uuid", v |-> id]
        IN \E r \in {record_user_feedback(redis, metricsDb, query_id, rating, feedback)} :
             /\ redis' = r.db
             /\ metricsDb' = r.rows
             /\ last' = [op |-> "record_user_feedback", query_id |-> query_id,
                         rating |-> rating, feedback |-> feedback,
                         raised |-> r.raised, found |-> r.found,
                         rows_before |-> metricsDb,
                         repeated |-> last.found /\ last.query_id = query_id,
                         calls |-> last.calls + 1]
    /\ UNCHANGED <<now, messages, sessions, nQueries, ingest, accounts, audit, lookups>>

\* integrated_chat_service.record_feedback(message_id, rating, feedback), for
\* a message of the session or an unknown message id.
RecordFeedback ==
    /\ last.calls < MaxFeedback
    /\ \E message_id \in 1..(Len(messages) + 1), rating \in Ratings,
          feedback \in Comments :
        \E r \in {record_feedback(redis, metricsDb, messages, message_id, rating,
                                  feedback)} :
             /\ redis' = r.db
             /\ metricsDb' = r.rows
             /\ last' = [op |-> "record_feedback",
                         query_id |-> [kind |-> "message_pk", v |-> message_id],
                         rating |-> rating, feedback |-> feedback,
                         raised |-> r.raised, found |-> r.found,
                         rows_before |-> metricsDb,
                         repeated |-> FALSE,
                         calls |-> last.calls + 1]
    /\ UNCHANGED <<now, messages, sessions, nQueries, ingest, accounts, audit, lookups>>

NextFeedback == RecordUserFeedback \/ RecordFeedback

SpecFeedback == InitFeedback /\ [][NextFeedback]_vars

-----------------------------------------------------------------------------
(* Reprocessing a document of cancer type lung while queries are served:     *)
(* the steps of the process_document runs interleave with each other and     *)
(* with the queries' reads.                                                  *)

NoRead == [op |-> "none", table |-> {}, vectors |-> {}]

\* What a read shows of a set of rows or entries: (chunk_index, content).
Shown(S) == {<<c.chunk_index, c.content>> : c \in S}

InitChunks ==
    /\ now = 0
    /\ redis = warm_cache(EmptyRedis([bulkEntries |-> 0, popBulk |-> 0,
                                      otherKeys |-> 0], [q \in {} |-> 0]),
                          0, COMMON_MEDICAL_QUERIES)
    /\ metricsDb = <<>>
    /\ messages = <<>>
    /\ sessions = {}
    /\ nQueries = 0
    /\ last = NoRead
    /\ ingest = ProcessedDocument
    /\ accounts = NoAccounts
    /\ audit = NoAudit
    /\ lookups = NoLookups

\* The steps of run p that touch the chunk table or the vector store only.
Delete ==
    \E p \in 1..MaxRuns :
        /\ ingest.runs[p].pc = "idle"
        /\ ingest' = DeleteChunks(ingest, p)
        /\ UNCHANGED <<now, redis, metricsDb, messages, sessions, nQueries, last, accounts, audit, lookups>>

Create ==
    \E p \in 1..MaxRuns :
        /\ ingest.runs[p].pc = "create"
        /\ ingest' = CreateChunk(ingest, p)
        /\ UNCHANGED <<now, redis, metricsDb, messages, sessions, nQueries, last, accounts, audit, lookups>>

Index ==
    \E p \in 1..MaxRuns :
        /\ ingest.runs[p].pc = "index"
        /\ ingest' = AddToVectorStore(ingest, p)
        /\ UNCHANGED <<now, redis, metricsDb, messages, sessions, nQueries, last, accounts, audit, lookups>>

Save ==
    \E p \in 1..MaxRuns :
        /\ ingest.runs[p].pc = "save"
        /\ ingest' = SaveChunk(ingest, p)
        /\ UNCHANGED <<now, redis, metricsDb, messages, sessions, nQueries, last, accounts, audit, lookups>>

\* The end of a run: the document is marked indexed and the cache is
\* invalidated with the cancer type's name.
Finish ==
    \E p \in 1..MaxRuns :
        /\ ingest.runs[p].pc = "finish"
        /\ ingest' = MarkIndexed(ingest, p)
        /\ redis' = invalidate_cache(redis, NameChars("lung"))
        /\ UNCHANGED <<now, metricsDb, messages, sessions, nQueries, last, accounts, audit, lookups>>

\* A query reads the document's entries of the vector store (the retriever
\* of hybrid_search); last records them and the rows of the chunk table at
\* that moment.
QueryReads ==
    /\ last' = [op |-> "query", table |-> Shown(ingest.chunks),
                vectors |-> Shown(ingest.vectors)]
    /\ UNCHANGED <<now, redis, metricsDb, messages, sessions, nQueries, ingest, accounts, audit, lookups>>

NextChunks == Delete \/ Create \/ Index \/ Save \/ Finish \/ QueryReads

SpecChunks == InitChunks /\ [][NextChunks]_vars

-----------------------------------------------------------------------------
(* RAGMonitor.record_query on its own: metrics of every duration and        *)
(* confidence around the two alert thresholds.                              *)

MaxRecords == 2

\* total_duration in seconds: below, at and above thresholds['response_time']
MonitorDurations == {1, 5, 6}

\* confidence_score 0.4, 0.5 and 0.8
MonitorConfidences == {691200, 864000, 1382400}

NoRecord ==
    [op |-> "none", metrics |-> NewMetrics(0, [duration |-> 0]), fail |-> "none",
     raised |-> FALSE, alerts_before |-> <<>>]

InitMonitor ==
    /\ now = 0
    /\ redis = EmptyRedis([bulkEntries |-> 0, popBulk |-> 0, otherKeys |-> 0],
                          [q \in {} |-> 0])
    /\ metricsDb = <<>>
    /\ messages = <<>>
    /\ sessions = {}
    /\ nQueries = 0
    /\ last = NoRecord
    /\ ingest = NoIngest
    /\ accounts = NoAccounts
    /\ audit = NoAudit
    /\ lookups = NoLookups

\* rag_monitor.record_query(metrics) for the metrics of a new query, with
\* Redis reachable or not.
RecordQuery ==
    /\ nQueries < MaxRecords
    /\ \E duration \in MonitorDurations, confidence \in MonitorConfidences,
          fail \in {"none", "monitor_redis"} :
         \E metrics \in {[NewMetrics(nQueries + 1, [duration |-> duration])
                             EXCEPT !.total_duration = duration,
                                    !.confidence_score = confidence]} :
         \E rec \in {record_query(redis, metricsDb, metrics, fail)} :
            /\ redis' = rec.db
            /\ metricsDb' = rec.rows
            /\ last' = [op |-> "record_query", metrics |-> metrics, fail |-> fail,
                        raised |-> rec.raised, alerts_before |-> redis.alerts]
    /\ nQueries' = nQueries + 1
    /\ UNCHANGED <<now, messages, sessions, ingest, accounts, audit, lookups>>

NextMonitor == RecordQuery

SpecMonitor == InitMonitor /\ [][NextMonitor]_vars

-----------------------------------------------------------------------------
(* Password reset: accounts.views.password_reset_confirm.  The project does *)
(* not set ATOMIC_REQUESTS and the view takes no lock, so each query of a   *)
(* request commits on its own and requests interleave between queries.      *)
(* accounts = [password, resets, requests, sets]: the user's password, the   *)
(* PasswordReset rows by token, what each confirm request holds, and the     *)
(* password writes made so far.                                              *)

MaxConfirms == 2

Tokens == {"t1"}

NewPasswords == {"pw1", "pw2"}

\* expires_at of the stored token: 24 hours after its creation, which lies
\* in the past by up to 24 hours.
ResetExpiries == {TickStep, 24 * 3600}

\* PasswordReset.is_valid
is_valid(reset, t) == ~reset.used /\ t < reset.expires_at

IdleRequest ==
    [pc |-> "idle", token |-> "none", password1 |-> "none", response |-> "none"]

NoConfirm ==
    [op |-> "none", p |-> 0, response |-> "none", password_before |-> "none",
     resets_before |-> <<>>]

InitReset ==
    /\ now = 0
    /\ redis = EmptyRedis([bulkEntries |-> 0, popBulk |-> 0, otherKeys |-> 0],
                          [q \in {} |-> 0])
    /\ metricsDb = <<>>
    /\ messages = <<>>
    /\ sessions = {}
    /\ nQueries = 0
    /\ last = NoConfirm
    /\ ingest = NoIngest
    /\ \E expires_at \in ResetExpiries :
          accounts = [password |-> "old",
                      resets |-> [tok \in Tokens |->
                                     [used |-> FALSE, expires_at |-> expires_at]],
                      requests |-> [p \in 1..MaxConfirms |-> IdleRequest],
                      sets |-> <<>>]
    /\ audit = NoAudit
    /\ lookups = NoLookups

\* password_reset_confirm up to the call of _complete_password_reset: the
\* row is loaded (404 for an unknown token), reset.used and reset.is_valid()
\* are tested on the loaded row, and a GET is answered with the form.
PasswordResetConfirm ==
    \E p \in 1..MaxConfirms, token \in Tokens \cup {"unknown"},
       method \in {"GET", "POST"}, password1 \in NewPasswords :
        /\ accounts.requests[p].pc = "idle"
        /\ \E response \in
              { IF token \notin DOMAIN accounts.resets THEN "404"
                ELSE IF accounts.resets[token].used THEN "already_used"
                ELSE IF ~is_valid(accounts.resets[token], now) THEN "expired"
                ELSE IF method = "POST" THEN "none"
                ELSE "confirm_form" } :
             /\ accounts' =
                  [accounts EXCEPT !.requests[p] =
                      [pc |-> IF response = "none" THEN "set_password" ELSE "done",
                       token |-> token,
                       password1 |-> IF response = "none" THEN password1 ELSE "none",
                       response |-> response]]
             /\ last' = [op |-> "confirm", p |-> p, response |-> response,
                         password_before |-> accounts.password,
                         resets_before |-> accounts.resets]
        /\ UNCHANGED <<now, redis, metricsDb, messages, sessions, nQueries, ingest,
                       audit, lookups>>

\* _complete_password_reset: user.set_password(new_password);
\* user.save(update_fields=['password'])
SetPassword ==
    \E p \in 1..MaxConfirms :
        /\ accounts.requests[p].pc = "set_password"
        /\ accounts' =
             [accounts EXCEPT !.password = accounts.requests[p].password1,
                              !.sets = Append(@, [p |-> p,
                                                  token |-> accounts.requests[p].token]),
                              !.requests[p].pc = "mark_used"]
        /\ last' = [op |-> "set_password", p |-> p, response |-> "none",
                    password_before |-> accounts.password,
                    resets_before |-> accounts.resets]
        /\ UNCHANGED <<now, redis, metricsDb, messages, sessions, nQueries, ingest,
                       audit, lookups>>

\* _complete_password_reset: reset.used = True; reset.save(update_fields=
\* ['used']); then the view renders password_reset_complete.html.
MarkUsed ==
    \E p \in 1..MaxConfirms :
        /\ accounts.requests[p].pc = "mark_used"
        /\ accounts' =
             [accounts EXCEPT !.resets[accounts.requests[p].token].used = TRUE,
                              !.requests[p].pc = "done",
                              !.requests[p].response = "complete"]
        /\ last' = [op |-> "mark_used", p |-> p, response |-> "complete",
                    password_before |-> accounts.password,
                    resets_before |-> accounts.resets]
        /\ UNCHANGED <<now, redis, metricsDb, messages, sessions, nQueries, ingest,
                       audit, lookups>>

NextReset == PasswordResetConfirm \/ SetPassword \/ MarkUsed \/ Tick

SpecReset == InitReset /\ [][NextReset]_vars

-----------------------------------------------------------------------------
(* The audit trail: the pre_save, post_save and post_delete receivers of    *)
(* apps.audit.signals, which Django calls for every sender.  The database   *)
(* is migrated (is_audit_log_table_ready() is true) and no transaction is   *)
(* marked for rollback.                                                      *)
(* audit = [rows, log, clock]: the one instance (pk 1) of each sender model *)
(* by model label, the AuditLog table in insertion order, the time in ticks. *)
(* An instance has a text field, a field with an ignored name and an         *)
(* auto_now datetime: [name, password, updated_at].                          *)

MaxSaves == 3

MaxClock == 3

\* Ticks per second: a datetime holds a whole second and a fraction.
TicksPerSecond == 2

\* settings.AUDIT_EXCLUDED_MODELS
excluded_models ==
    {"accounts.User", "admin.LogEntry", "sessions.Session", "contenttypes.ContentType"}

\* get_changed_fields: ignored_fields
ignored_fields == {"password", "last_login"}

\* isinstance(value, datetime) for the value of a field
IsDatetime(field) == field = "updated_at"

\* datetime.replace(microsecond=0)
ReplaceMicrosecond0(t) == (t \div TicksPerSecond) * TicksPerSecond

\* get_changed_fields(old_state, new_state); old_state is {} when the row
\* could not be read, and old_state.get(field) is then None.
get_changed_fields(old_state, new_state) ==
    {field \in DOMAIN new_state :
        /\ field \notin ignored_fields
        /\ IF field \in DOMAIN old_state /\ IsDatetime(field)
           THEN ReplaceMicrosecond0(new_state[field])
                    # ReplaceMicrosecond0(old_state[field])
           ELSE field \notin DOMAIN old_state \/ new_state[field] # old_state[field]}

\* The action written for a post_save whatever `created` says.
AlwaysUpdate(created) == "UPDATE"

\* action = AuditLog.CREATE if created else AuditLog.UPDATE
ActionOf(created) == IF created THEN "CREATE" ELSE "UPDATE"

\* log_pre_save: instance._original_state, [set, v]; the attribute is not
\* set for AuditLog and for the excluded models.
log_pre_save(A, sender, pk) ==
    IF sender = "audit.AuditLog" \/ sender \in excluded_models
    THEN [set |-> FALSE, v |-> <<>>]
    ELSE IF sender \in DOMAIN A.rows
    THEN [set |-> TRUE, v |-> A.rows[sender]]
    ELSE [set |-> TRUE, v |-> <<>>]

\* Model.save() of an instance, with the receivers Django calls around the
\* write: log_pre_save, the INSERT or UPDATE (auto_now sets updated_at), then
\* log_changes.  log_changes saves an AuditLog instance, which comes back
\* here with sender AuditLog.
RECURSIVE save(_, _, _, _)
log_changes(A, sender, pk, created, original, current) ==
    IF sender = "audit.AuditLog" THEN A
    ELSE IF sender \in excluded_models THEN A
    ELSE IF ~created /\ original.set /\ get_changed_fields(original.v, current) = {}
    THEN A
    ELSE save(A, "audit.AuditLog", Len(A.log) + 1,
              [action |-> ActionOf(created), model_name |-> sender, object_id |-> pk])

save(A, sender, pk, instance) ==
    IF sender = "audit.AuditLog"
    THEN log_changes([A EXCEPT !.log = Append(@, instance)], sender, pk, TRUE,
                     log_pre_save(A, sender, pk), instance)
    ELSE log_changes([A EXCEPT !.rows =
                        Put(@, sender,
                            [instance EXCEPT !.updated_at = A.clock])],
                     sender, pk, sender \notin DOMAIN A.rows,
                     log_pre_save(A, sender, pk),
                     [instance EXCEPT !.updated_at = A.clock])

\* log_deletion, called after the row has been deleted.
log_deletion(A, sender, pk) ==
    IF sender = "audit.AuditLog" THEN A
    ELSE IF sender \in excluded_models THEN A
    ELSE save(A, "audit.AuditLog", Len(A.log) + 1,
              [action |-> "DELETE", model_name |-> sender, object_id |-> pk])

\* Model.delete() of an instance.
delete(A, sender, pk) ==
    log_deletion([A EXCEPT !.rows = Del(@, {sender})], sender, pk)

Senders == {"chat.ChatDocument", "accounts.User"}

Names == {"a", "b"}

PasswordHashes == {"h1", "h2"}

NoRow == [name |-> "none", password |-> "none", updated_at |-> 0]

NoSave ==
    [op |-> "none", sender |-> "none", pk |-> 0, before |-> NoRow, after |-> NoRow,
     log_before |-> <<>>]

InitAudit ==
    /\ now = 0
    /\ redis = EmptyRedis([bulkEntries |-> 0, popBulk |-> 0, otherKeys |-> 0],
                          [q \in {} |-> 0])
    /\ metricsDb = <<>>
    /\ messages = <<>>
    /\ sessions = {}
    /\ nQueries = 0
    /\ last = NoSave
    /\ ingest = NoIngest
    /\ accounts = NoAccounts
    /\ audit = [rows |-> [k \in {} |-> NoRow], log |-> <<>>, clock |-> 0]
    /\ lookups = NoLookups

\* sender.objects.create(...)
CreateInstance ==
    /\ nQueries < MaxSaves
    /\ \E sender \in Senders, name \in Names, password \in PasswordHashes :
        /\ sender \notin DOMAIN audit.rows
        /\ \E A \in {save(audit, sender, 1,
                          [name |-> name, password |-> password, updated_at |-> 0])} :
             /\ audit' = A
             /\ last' = [op |-> "create", sender |-> sender, pk |-> 1,
                         before |-> NoRow, after |-> A.rows[sender],
                         log_before |-> audit.log]
    /\ nQueries' = nQueries + 1
    /\ UNCHANGED <<now, redis, metricsDb, messages, sessions, ingest, accounts, lookups>>

\* instance = sender.objects.get(pk=...); fields are assigned (or not);
\* instance.save()
UpdateInstance ==
    /\ nQueries < MaxSaves
    /\ \E sender \in Senders, name \in Names, password \in PasswordHashes :
        /\ sender \in DOMAIN audit.rows
        /\ \E A \in {save(audit, sender, 1,
                          [audit.rows[sender] EXCEPT !.name = name,
                                                            !.password = password])} :
             /\ audit' = A
             /\ last' = [op |-> "update", sender |-> sender, pk |-> 1,
                         before |-> audit.rows[sender],
                         after |-> A.rows[sender],
                         log_before |-> audit.log]
    /\ nQueries' = nQueries + 1
    /\ UNCHANGED <<now, redis, metricsDb, messages, sessions, ingest, accounts, lookups>>

\* instance.delete()
DeleteInstance ==
    /\ nQueries < MaxSaves
    /\ \E sender \in Senders :
        /\ sender \in DOMAIN audit.rows
        /\ audit' = delete(audit, sender, 1)
        /\ last' = [op |-> "delete", sender |-> sender, pk |-> 1,
                    before |-> audit.rows[sender], after |-> NoRow,
                    log_before |-> audit.log]
    /\ nQueries' = nQueries + 1
    /\ UNCHANGED <<now, redis, metricsDb, messages, sessions, ingest, accounts, lookups>>

\* Part of a second passes.
ClockTick ==
    /\ audit.clock < MaxClock
    /\ audit' = [audit EXCEPT !.clock = @ + 1]
    /\ UNCHANGED <<now, redis, metricsDb, messages, sessions, nQueries, last, ingest,
                   accounts, lookups>>

NextAudit == CreateInstance \/ UpdateInstance \/ DeleteInstance \/ ClockTick

SpecAudit == InitAudit /\ [][NextAudit]_vars

-----------------------------------------------------------------------------
(* AdvancedRAGService.hybrid_search on its own: calls with the filters of   *)
(* different users, over a vector store that holds chunks of several cancer *)
(* types and applies the filter it is given.                                 *)

MaxSearches == 2

MaxVariants == 2

MaxDocs == 2

\* The chunks in the vector store.
StoredChunks ==
    Chunks \cup { [id |-> "c4", source |-> "d3", cancer_type |-> "breast"] }

\* What the retriever can return for one query variant under a filter: up to
\* MaxDocs different chunks, each passing the filter, in any order.
RetrievedFor(filters) ==
    UNION { { docs \in [1..n -> {c \in StoredChunks : Passes(c, filters)}] :
                \A i, j \in 1..n : i # j => docs[i] # docs[j] } :
            n \in 0..MaxDocs }

\* expand_query gives the query, or the query and further variants.
VariantDocsFor(filters) ==
    UNION { [1..v -> RetrievedFor(filters)] : v \in 1..MaxVariants }

SearchQueries == { <<"dose">> }

NoSearch ==
    [op |-> "none", query |-> <<>>, filters |-> {}, cached |-> FALSE,
     variantDocs |-> << <<>> >>, results |-> <<>>]

InitRetrieval ==
    /\ now = 0
    /\ redis = EmptyRedis([bulkEntries |-> 0, popBulk |-> 0, otherKeys |-> 0],
                          [q \in {} |-> 0])
    /\ metricsDb = <<>>
    /\ messages = <<>>
    /\ sessions = {}
    /\ nQueries = 0
    /\ last = NoSearch
    /\ ingest = NoIngest
    /\ accounts = NoAccounts
    /\ audit = NoAudit
    /\ lookups = NoLookups

\* results = self.rag_service.hybrid_search(message_text, filters=
\* self._build_search_filters(user))
HybridSearch ==
    /\ nQueries < MaxSearches
    /\ \E user \in Users, query \in SearchQueries :
       \E filters \in {_build_search_filters(user)} :
       \E variantDocs \in (IF SearchCacheHit(redis, query) THEN {<< <<>> >>}
                           ELSE VariantDocsFor(filters)) :
       \E hs \in {hybrid_search(redis, now, query, variantDocs)} :
          /\ redis' = hs.db
          /\ last' = [op |-> "hybrid_search", query |-> query, filters |-> filters,
                      cached |-> SearchCacheHit(redis, query),
                      variantDocs |-> variantDocs, results |-> hs.results]
    /\ nQueries' = nQueries + 1
    /\ UNCHANGED <<now, metricsDb, messages, sessions, ingest, accounts, audit, lookups>>

NextRetrieval == HybridSearch \/ Tick

SpecRetrieval == InitRetrieval /\ [][NextRetrieval]_vars

-----------------------------------------------------------------------------
(* Lookups in flight: _get_exact_match reads the entry with GET and writes  *)
(* it back with SET in two Redis commands, and other clients' commands can  *)
(* run between them.  lookups[p] = [pc, key, cache_data] is what call p of   *)
(* _get_exact_match holds: the key it was given (the exact key, or the best  *)
(* match of _get_similar_match) and the record it has read.                  *)

MaxLookups == 2

MaxRaceOps == 2

\* The confidence of the responses written meanwhile: 0.8 (the warm-up
\* responses have 0.9).
RaceConfidences == {1382400}

IdleLookup == [pc |-> "idle", key |-> <<>>, cache_data |-> NoPayload]

NoRace ==
    [op |-> "none", p |-> 0, key |-> <<>>, created |-> FALSE, replaced |-> FALSE]

InitLookups ==
    /\ now = 0
    /\ \E bg \in Backgrounds :
          redis = warm_cache(EmptyRedis(bg, [q \in {} |-> 0]), 0,
                             COMMON_MEDICAL_QUERIES)
    /\ metricsDb = <<>>
    /\ messages = <<>>
    /\ sessions = {}
    /\ nQueries = 0
    /\ last = NoRace
    /\ ingest = NoIngest
    /\ accounts = NoAccounts
    /\ audit = NoAudit
    /\ lookups = [p \in 1..MaxLookups |-> IdleLookup]

\* _get_exact_match: data = self.redis_client.get(key)
LookupGet ==
    \E p \in 1..MaxLookups, query \in RawQueries, c \in 1..Len(ContextsSeq) :
       \E key \in {_generate_cache_key(query, ContextsSeq[c])} :
        /\ lookups[p].pc = "idle"
        /\ lookups' =
             [lookups EXCEPT ![p] =
                 IF ExactHit(redis, key)
                 THEN [pc |-> "got", key |-> key, cache_data |-> redis.results[key]]
                 ELSE [pc |-> "done", key |-> key, cache_data |-> NoPayload]]
        /\ last' = [NoRace EXCEPT !.op = "get", !.p = p, !.key = key]
        /\ UNCHANGED <<now, redis, metricsDb, messages, sessions, nQueries, ingest,
                       accounts, audit>>

\* _get_exact_match: cache_data["hits"] += 1; self.redis_client.set(key,
\* json.dumps(cache_data)); then _update_stats.  last records whether the key
\* was absent at the SET, and whether it held the record of another write.
LookupSet ==
    \E p \in 1..MaxLookups :
       \E key \in {lookups[p].key} :
        /\ lookups[p].pc = "got"
        /\ redis' = _update_stats(
                        [redis EXCEPT !.results =
                            Put(@, key, [lookups[p].cache_data EXCEPT
                                            !.hits = @ + 1,
                                            !.expiry = [set |-> FALSE, at |-> 0]])])
        /\ lookups' = [lookups EXCEPT ![p].pc = "done"]
        /\ last' = [op |-> "set", p |-> p, key |-> key,
                    created |-> key \notin DOMAIN redis.results,
                    replaced |-> /\ key \in DOMAIN redis.results
                                 /\ redis.results[key].cached_at
                                        # lookups[p].cache_data.cached_at]
        /\ UNCHANGED <<now, metricsDb, messages, sessions, nQueries, ingest,
                       accounts, audit>>

\* Another client's rag_cache.cache_response(query, response, context), with
\* its eviction sweep.
RacingWrite ==
    /\ nQueries < MaxRaceOps
    /\ \E query \in RawQueries, c \in 1..Len(ContextsSeq),
          confidence \in RaceConfidences :
        /\ redis' = cache_response(redis, now, query,
                        [content |-> Content("generated", query, [id |-> "none"]),
                         confidence |-> confidence, cache_type |-> "generated"],
                        ContextsSeq[c])
        /\ last' = [NoRace EXCEPT !.op = "cache_response",
                                  !.key = _generate_cache_key(query, ContextsSeq[c])]
    /\ nQueries' = nQueries + 1
    /\ UNCHANGED <<now, metricsDb, messages, sessions, ingest, accounts, audit, lookups>>

\* Another client's rag_cache.invalidate_cache, with a pattern or without.
RacingInvalidate ==
    /\ nQueries < MaxRaceOps
    /\ \E pattern \in { <<"2">>, <<>> } :
        /\ redis' = invalidate_cache(redis, pattern)
        /\ last' = [NoRace EXCEPT !.op = "invalidate_cache"]
    /\ nQueries' = nQueries + 1
    /\ UNCHANGED <<now, metricsDb, messages, sessions, ingest, accounts, audit, lookups>>

\* Tick leaves lookups alone: the calls in flight keep what they have read.
NextLookups == LookupGet \/ LookupSet \/ RacingWrite \/ RacingInvalidate \/ Tick

SpecLookups == InitLookups /\ [][NextLookups]_vars

-----------------------------------------------------------------------------
(* Properties.  One confidence unit is 1/1728000; a similarity is in         *)
(* thousandths.                                                              *)

\* C1: a lookup that finds the entry stored under the exact key of the
\* normalized query and the context is recorded with cache_type "exact", adds
\* exactly one to the entry's hits, and the call invokes no retrieval,
\* reranking or generation and writes no cache entry.
C1_ExactHitTaggedExact ==
    last.lookup = "exact_hit" =>
        /\ last.cache_type = "exact"
        /\ last.hit_key \in DOMAIN redis.results
        /\ redis.results[last.hit_key].hits = last.hits_before + 1
        /\ last.stages = NoStages
        /\ ~last.wrote

\* C2: a lookup answered through the embedding scan returns an entry whose
\* stored embedding has similarity >= 0.85 to the query's, and is recorded
\* with cache_type "similar".
C2_SimilarHitTaggedSimilar ==
    last.lookup = "similar_hit" =>
        /\ last.hit_key \in DOMAIN redis.embeddings
        /\ CosSim(Encode(Normalize(last.q)), redis.embeddings[last.hit_key]) * 100
              >= 85 * 1000
        /\ last.cache_type = "similar"

\* C3: generate_response writes a cache entry only after a response that is
\* not a fallback and has confidence > 0.6, and every entry the pipeline
\* wrote (cache_type "generated") holds a generated response of confidence
\* > 0.6, never the not-found fallback or the apology.
C3_WriteGated ==
    /\ last.wrote =>
          /\ last.written.content.kind = "generated"
          /\ last.written.confidence = last.confidence
          /\ last.confidence * 10 > 6 * 1728000
    /\ \A k \in DOMAIN redis.results :
          redis.results[k].response.cache_type = "generated" =>
              /\ redis.results[k].response.content.kind = "generated"
              /\ redis.results[k].response.content.kind \notin {"not_found", "apology"}
              /\ redis.results[k].response.confidence * 10 > 6 * 1728000

\* C3, the case: the last call wrote the entry of its query, and it is there.
C3_Witness ==
    /\ last.wrote
    /\ _generate_cache_key(last.q, last.context) \in DOMAIN redis.results
    /\ redis.results[_generate_cache_key(last.q, last.context)].response.cache_type
          = "generated"

C5_ConfidenceGate ==
    (last.lookup = "miss" /\ ~last.raised) =>
        IF last.n_results > 0 /\ last.gate_confidence * 10 >= 7 * 1728000
        THEN last.kind = "generated" /\ ~last.fallback_used
        ELSE last.kind = "not_found" /\ last.fallback_used

\* C6: a miss with no failure and confidence in [0.5, 0.7) is answered with
\* a generated response carrying the disclaimer, and fallback_used is false.
C6_SoftTier ==
    ( /\ last.lookup = "miss"
      /\ last.cause = "none"
      /\ last.n_results > 0
      /\ last.confidence * 10 >= 5 * 1728000
      /\ last.confidence * 10 < 7 * 1728000 )
    => last.kind = "generated_with_disclaimer" /\ ~last.fallback_used

\* C7: a call whose retrieval finds the vector index unreachable has
\* confidence 0, answers with the not-found fallback, records fallback_used
\* and writes no cache entry.
C7_VectorDownNotFound ==
    last.cause = "vector" =>
        /\ last.confidence = 0
        /\ last.kind = "not_found"
        /\ last.fallback_used
        /\ ~last.wrote

\* C8: a call that finds the cache unreachable at lookup or at write-back
\* goes through retrieval and answers what the miss path answers: the
\* generated response or the not-found fallback.
C8_CacheDownIsMiss ==
    last.cause \in {"cache_get", "cache_set"} =>
        /\ last.stages.retrieval
        /\ last.kind \in {"generated", "not_found"}
        /\ ~last.raised

\* C9: no call raises to its caller, every call returns a message, and a
\* call whose generation failed answers with the apology and records
\* fallback_used.
C9_NeverRaises ==
    /\ ~last.raised
    /\ last.id > 0 => last.kind # "none"
    /\ last.cause = "llm" => last.kind = "apology" /\ last.fallback_used

\* C10: the sweep of the last cache write ran only if the write left more
\* than max_cache_size entries, and then removed floor(n / 10) of the n
\* entries.
C10_SweepOnlyAboveMax ==
    redis.sweep.ran =>
        /\ redis.sweep.n > max_cache_size
        /\ redis.sweep.removed = redis.sweep.n \div 10

C12_EvictionOrder ==
    \A e \in redis.sweep.evicted :
        /\ \A k \in DOMAIN redis.results :
              LET r == redis.results[k]
              IN ~ \/ e.cached_at.t > r.cached_at.t
                   \/ e.cached_at.t = r.cached_at.t /\ e.cached_at.n > r.cached_at.n
                   \/ e.cached_at = r.cached_at /\ e.hits > r.hits
        /\ redis.bulkEntries = 0
        /\ e.cached_at.n > redis.lateFrom => redis.lateBulk = 0
        /\ e.key \notin DOMAIN redis.embeddings

\* C12, its case: the sweep of the last write evicted some of the entries of
\* the warm-up and kept another one of them.
C12_Witness ==
    /\ last.op = "cache_response"
    /\ redis.sweep.evicted # {}
    /\ \E k \in DOMAIN redis.results : redis.results[k].cached_at.n <= redis.lateFrom

\* C13: after process_document of a document of cancer type T has called
\* invalidate_cache, the cache holds no entry cached under a context with
\* cancer_type T; after invalidate_cache without pattern it holds no entry.
C13_InvalidationRemovesCancerType ==
    /\ (last.op = "invalidate_cache" /\ last.cancer_type # "none") =>
          \A k \in DOMAIN redis.results :
              redis.results[k].context.cancer_type # last.cancer_type
    /\ (last.op = "invalidate_cache" /\ last.pattern = <<>>) =>
          /\ DOMAIN redis.results = {}
          /\ redis.bulkEntries + redis.lateBulk = 0

\* C14: a lookup at time `at` returns an entry only within ttl seconds of its
\* write, and
\* a hit changes the entry's hits only: the expiry and every other field
\* stay.
C14_HitWithinLifetime ==
    (last.op = "get_cached_response" /\ last.type # "miss") =>
        /\ last.at < last.written_at + last.ttl
        /\ last.expiry_kept
        /\ last.fields_kept

\* C15: calculate_confidence gives a value from 0.0 to 1.0 for every
\* candidate list, and exactly 0.0 for the empty list.
C15_ConfidenceBounds ==
    last.op = "calculate_confidence" =>
        /\ 0 <= last.confidence /\ last.confidence <= 1728000
        /\ last.input = <<>> => last.confidence = 0

\* C15, its case: more than three candidates, and among the top three a
\* negative score and a score above 1.
C15_Witness ==
    /\ last.op = "calculate_confidence"
    /\ Len(last.input) > 3
    /\ \E i \in 1..3 : ScoreOf(last.input[i]) < 0
    /\ \E i \in 1..3 : ScoreOf(last.input[i]) > 20

\* C16: with a reranker that scores, rerank_results gives the candidates in
\* descending rerank_score order, ties in input order, cut to the top
\* rerank_k; with a reranker that is not loaded or whose predict raises, it
\* gives the input list as it is.
C16_RerankOrDegrade ==
    last.op = "rerank_results" =>
        LET in == last.input
            out == last.output
            sc == last.reranker.scores
        IN IF ~last.reranker.available \/ last.reranker.fails
           THEN out = in
           ELSE /\ Len(out) = Min(Len(in), 5)
                /\ \A j \in 1..Len(out) :
                      /\ out[j].document.id \in 1..Len(in)
                      /\ out[j] = [in[out[j].document.id] EXCEPT !.rerank_score =
                                      [set |-> TRUE, v |-> sc[out[j].document.id]]]
                /\ \A j, k \in 1..Len(out) :
                      j < k => \/ out[j].rerank_score.v > out[k].rerank_score.v
                               \/ /\ out[j].rerank_score.v = out[k].rerank_score.v
                                  /\ out[j].document.id < out[k].document.id
                /\ \A i \in 1..Len(in) :
                      (\A j \in 1..Len(out) : out[j].document.id # i) =>
                          \A j \in 1..Len(out) : sc[i] <= out[j].rerank_score.v

\* C17: every call of generate_response made so far has exactly one metrics
\* record, and the record of a call that returned holds the response the
\* call returned.
C17_OneRecordPerQuery ==
    /\ \A id \in 1..nQueries :
          Cardinality({i \in 1..Len(metricsDb) : metricsDb[i].query_id = id}) = 1
    /\ (last.id > 0 /\ ~last.raised) =>
          \E i \in 1..Len(metricsDb) :
              /\ metricsDb[i].query_id = last.id
              /\ metricsDb[i].response_kind = last.kind
              /\ metricsDb[i].fallback_used = last.fallback_used

\* C18: a feedback call that finds no metrics record for its query_id raises
\* to its caller, and leaves the metrics records as they were.
C18_UnknownQueryRaises ==
    (last.op \in {"record_user_feedback", "record_feedback"} /\ ~last.found) =>
        /\ last.raised
        /\ metricsDb = last.rows_before

\* C19: after a second feedback call for the same recorded query_id the
\* record holds the second rating and comment, the number of records is
\* unchanged, and the satisfaction counters count one rating per rated record.
C19_FeedbackIdempotent ==
    last.repeated =>
        /\ \A i \in RowsOf(metricsDb, last.query_id) :
              /\ metricsDb[i].user_rating = last.rating
              /\ metricsDb[i].user_feedback = last.feedback
        /\ Len(metricsDb) = Len(last.rows_before)
        /\ redis.satisfaction.total_ratings
              = Cardinality({i \in 1..Len(metricsDb) : metricsDb[i].user_rating # 0})

\* C20: the chunk table never holds two rows of the document with the same
\* chunk_index, and what a query reads of the document is the complete old
\* chunk set or the complete new one.
C20_ChunksUniqueAndWhole ==
    /\ \A a, b \in ingest.chunks : a.chunk_index = b.chunk_index => a = b
    /\ last.op = "query" =>
          LET old == {<<i, 0>> : i \in 0..(OldChunks - 1)}
              new == {<<i, 1>> : i \in 0..(NewChunks - 1)}
          IN last.vectors \in {old, new} /\ last.table \in {old, new}


\* C21: alerting never fails the response.  In the first call the realtime
\* metrics key exists only if the monitor reached Redis during this call, so
\* whatever raised after that was raised while sending alerts: such a call
\* still returns to its caller, and what it returns is not replaced through a
\* failure inside the monitor.
C21_AlertingObservational ==
    (last.id = 1 /\ redis.realtimeKey) =>
        /\ ~last.raised
        /\ last.cause # "monitor"

\* C22: for a query recorded while Redis is reachable, the alert log gains a
\* slow_response alert for it if and only if its total_duration is above 5 s,
\* and a low_confidence alert if and only if its confidence is below 0.5.
C22_AlertConditions ==
    (/\ last.op = "record_query"
     /\ last.fail = "none"
     /\ \E i \in 1..Len(metricsDb) : metricsDb[i].query_id = last.metrics.query_id) =>
        LET logged(type) ==
                \E i \in (Len(last.alerts_before) + 1)..Len(redis.alerts) :
                    /\ redis.alerts[i].type = type
                    /\ redis.alerts[i].query_id = last.metrics.query_id
        IN /\ logged("slow_response") <=>
                  last.metrics.total_duration > response_time_threshold
           /\ logged("low_confidence") <=>
                  ConfLT(last.metrics.confidence_score, alert_confidence_threshold)

\* C23: a reset token completes at most one reset - no second password
\* write is made with the same token, so a confirm that comes later than or
\* together with a completed one leaves the password as it is - and a confirm
\* with an unknown token is answered 404 and changes neither the password nor
\* any token.
C23_SingleUseToken ==
    /\ \A tok \in Tokens :
          Cardinality({i \in 1..Len(accounts.sets) : accounts.sets[i].token = tok}) <= 1
    /\ (last.op = "confirm" /\ last.response = "404") =>
          /\ accounts.password = last.password_before
          /\ accounts.resets = last.resets_before

C25_ConfidenceFormula ==
    (last.op = "calculate_confidence" /\ last.input # <<>>) =>
        LET n == Min(3, Len(last.input))
            s == [i \in 1..n |->
                     IF last.input[i].rerank_score.set
                     THEN last.input[i].rerank_score.v
                     ELSE last.input[i].relevance_score]
            S == SumSeq(s)
            Q == SumSeq([i \in 1..n |-> s[i] * s[i]])
            value == (S * (400 * n * n - n * Q + S * S)) * (216 \div (n * n * n))
        IN last.confidence = Min(Max(value, 0), 1728000)

\* C26: a hybrid_search that went to the retriever gives one candidate for
\* every distinct chunk some variant returned, and none else; the
\* relevance_score of a chunk is the mean of the similarities observed for it
\* (0.8 for its first observation, 0.1 less for each further one, so
\* 16 - (m - 1) twentieths for a chunk observed m times); the list is in
\* descending relevance_score order and has at most retrieval_k candidates.
C26_MergeByChunk ==
    (last.op = "hybrid_search" /\ ~last.cached) =>
        LET docs == Flatten(last.variantDocs)
            out == last.results
            observed(c) == Cardinality({i \in 1..Len(docs) : docs[i] = c})
        IN /\ \A c \in {docs[i] : i \in 1..Len(docs)} :
                 Cardinality({j \in 1..Len(out) : out[j].document = c}) = 1
           /\ \A j \in 1..Len(out) :
                 /\ \E i \in 1..Len(docs) : docs[i] = out[j].document
                 /\ out[j].relevance_score = 16 - (observed(out[j].document) - 1)
           /\ \A j \in 1..(Len(out) - 1) :
                 out[j].relevance_score >= out[j + 1].relevance_score
           /\ Len(out) <= retrieval_k

\* C30: every candidate a hybrid_search call returns passes the filters of
\* that call, whatever calls came before it.
C30_FilterRespected ==
    last.op = "hybrid_search" =>
        \A j \in 1..Len(last.results) :
            \/ last.filters = {}
            \/ last.results[j].document.cancer_type \in last.filters

\* C27: the entry a lookup returns, by exact or by semantic match, was cached
\* under the context the lookup was made with.
C27_ContextIsolation ==
    (/\ last.op = "get_cached_response"
     /\ last.type # "miss"
     /\ last.key \in DOMAIN redis.results) =>
        redis.results[last.key].context = last.context

\* C28: every key of the stored query-embedding index is the key of a cache
\* entry that exists.
C28_EmbeddingIndexConsistent ==
    DOMAIN redis.embeddings \subseteq DOMAIN redis.results

\* C29: the SET of a lookup's hit-count update never creates an entry - the
\* key still holds an entry when it runs - and never replaces the record of a
\* cache_response that ran after the lookup's read.
C29_NoResurrection ==
    last.op = "set" => ~last.created /\ ~last.replaced

=============================================================================
